---- MODULE Spec2Model ----
(***************************************************************************)
(* A model of scripts/generate_test_steps.py: the structural inference of  *)
(* DataAppAnalyzer and the step composition of TestStepGenerator.          *)
(*                                                                         *)
(* A Python str is modelled as a sequence of one-character strings, so     *)
(* that strip, replace, upper, split, format and the substring tests are   *)
(* computed character by character.  A format template is such a sequence  *)
(* in which a replacement field is one element, e.g. "{base_url}".         *)
(* None and the empty value of the same type (which every use below tests  *)
(* by truthiness only) are both modelled as the empty sequence <<>>.       *)
(***************************************************************************)
EXTENDS Integers, Sequences, FiniteSets, TLC

VARIABLES
    \* the files of the extracted source tree: for each its path under the
    \* extraction directory, whether open/read succeeds, and its content as
    \* the set of source snippets it holds (see SnippetMatches)
    tree,
    \* DataAppAnalyzer instance
    analyzer,
    \* the last DataAppAnalyzer method called and the value it returned
    returned,
    \* the archive at self.zip_path: whether zipfile.ZipFile can read it
    zip_file,
    \* the files of tree in the order os.walk yields them (<<>> while no
    \* method that depends on the order runs)
    walk,
    \* the local variables of the running analyze call, and the exception
    \* that left it ("None": none)
    frame,
    \* the directories that exist under tempfile.gettempdir()
    temp_dirs,
    \* the calls that created or removed a directory (mkdtemp, makedirs,
    \* rmtree of a directory that exists), in the order they were made
    fs_calls,
    \* the run of main: its position, its command-line arguments and its
    \* local variables
    proc,
    \* TestStepGenerator instance
    app_type, app_url, tenant_name, description, tab_elements, ui_type,
    ui_graph, steps, comprehensive_mode, config,
    \* history of the generate calls made on the instance: for each call the
    \* navigation_items argument and the returned string
    calls,
    \* for each element of steps, the method of generate that appended it
    emitted_by,
    \* main's analysis['navigation_items'], the argument it passes to generate
    nav_items

gen_vars == <<app_type, app_url, tenant_name, description, tab_elements,
              ui_type, ui_graph, steps, comprehensive_mode, config,
              calls, emitted_by, nav_items>>

an_vars == <<tree, analyzer, returned, zip_file, walk, frame, temp_dirs, fs_calls,
            proc>>

vars == <<an_vars, gen_vars>>

\* ------------------------------------------------------------------ bounds

\* generate calls made on one TestStepGenerator instance
MaxCalls == 2

\* length of a navigation_items list
MaxNav == 3

\* files of a source tree
MaxFiles == 3

\* ------------------------------------------------------------ Python str

Whitespace == {" ", "\t", "\n", "\r"}

\* the printable ASCII characters in code point order, from 32 (space) on;
\* the grave accent (96), which a TLA+ string cannot hold, is a placeholder
Ascii ==
    <<" ","!","\"","#","$","%","&","'","(",")","*","+",",","-",".","/","0","1","2","3","4","5","6","7","8","9",":",";","<","=",">","?","@","A","B","C","D","E","F","G","H","I","J","K","L","M","N","O","P","Q","R","S","T","U","V","W","X","Y","Z","[","\\","]","^","_">> \o <<"<grave accent>">>
    \o <<"a","b","c","d","e","f","g","h","i","j","k","l","m","n","o","p","q","r","s","t","u","v","w","x","y","z","{","|","}","~">>

Ord(c) == 31 + (CHOOSE i \in 1..Len(Ascii) : Ascii[i] = c)

SetMin(S) == CHOOSE x \in S : \A y \in S : x <= y

SetMax(S) == CHOOSE x \in S : \A y \in S : x >= y

ToUpper ==
    [c \in {Ascii[i] : i \in 66..91} |-> Ascii[(CHOOSE i \in 66..91 : Ascii[i] = c) - 32]]

ToLower ==
    [c \in {Ascii[i] : i \in 34..59} |-> Ascii[(CHOOSE i \in 34..59 : Ascii[i] = c) + 32]]

str_upper(s) == [i \in 1..Len(s) |-> IF s[i] \in DOMAIN ToUpper THEN ToUpper[s[i]] ELSE s[i]]

str_lower(s) == [i \in 1..Len(s) |-> IF s[i] \in DOMAIN ToLower THEN ToLower[s[i]] ELSE s[i]]

\* s.strip(chars)
str_strip_chars(s, chars) ==
    LET keep == {i \in 1..Len(s) : s[i] \notin chars}
    IN  IF keep = {} THEN <<>> ELSE SubSeq(s, SetMin(keep), SetMax(keep))

\* s.strip()
str_strip(s) == str_strip_chars(s, Whitespace)

\* sub in s
str_contains(s, sub) ==
    \E i \in 1..(Len(s) - Len(sub) + 1) :
        \A j \in 1..Len(sub) : s[i + j - 1] = sub[j]

\* s.startswith(prefix)
str_startswith(s, prefix) ==
    /\ Len(prefix) <= Len(s)
    /\ \A j \in 1..Len(prefix) : s[j] = prefix[j]

\* s.endswith(suffix)
str_endswith(s, suffix) ==
    /\ Len(suffix) <= Len(s)
    /\ \A j \in 1..Len(suffix) : s[Len(s) - Len(suffix) + j] = suffix[j]

\* s.split(sep)[0], sep not empty
str_split_first(s, sep) ==
    LET hits == {i \in 1..(Len(s) - Len(sep) + 1) :
                    \A j \in 1..Len(sep) : s[i + j - 1] = sep[j]}
    IN  IF hits = {} THEN s ELSE SubSeq(s, 1, SetMin(hits) - 1)

\* s.split(c)[-1], c one character
str_split_last(s, c) ==
    LET hits == {i \in 1..Len(s) : s[i] = c}
    IN  IF hits = {} THEN s ELSE SubSeq(s, SetMax(hits) + 1, Len(s))

RECURSIVE str_replace(_, _, _)
\* s.replace(old, new), old not empty
str_replace(s, old, new) ==
    IF Len(s) < Len(old) THEN s
    ELSE IF SubSeq(s, 1, Len(old)) = old
         THEN new \o str_replace(SubSeq(s, Len(old) + 1, Len(s)), old, new)
         ELSE <<s[1]>> \o str_replace(Tail(s), old, new)

\* a < b on str: lexicographic by code point
str_less(a, b) ==
    LET n == IF Len(a) < Len(b) THEN Len(a) ELSE Len(b)
        d == {i \in 1..n : a[i] # b[i]}
    IN  IF d = {} THEN Len(a) < Len(b)
        ELSE Ord(a[SetMin(d)]) < Ord(b[SetMin(d)])

RECURSIVE str_of_int(_)
\* str(n) of an int n >= 0, as an f-string field renders it
str_of_int(n) ==
    IF n < 10 THEN <<Ascii[17 + n]>>
    ELSE str_of_int(n \div 10) \o <<Ascii[17 + (n % 10)]>>

RECURSIVE str_join(_, _)
\* sep.join(parts), computed by halves
str_join(parts, sep) ==
    IF parts = <<>> THEN <<>>
    ELSE IF Len(parts) = 1 THEN parts[1]
    ELSE LET h == Len(parts) \div 2
         IN  str_join(SubSeq(parts, 1, h), sep) \o sep
             \o str_join(SubSeq(parts, h + 1, Len(parts)), sep)

RECURSIVE str_format(_, _)
\* template.format(**fields): every replacement field of the template is a key of fields
str_format(template, fields) ==
    IF template = <<>> THEN <<>>
    ELSE (IF Head(template) \in DOMAIN fields THEN fields[Head(template)]
          ELSE <<Head(template)>>) \o str_format(Tail(template), fields)

\* d.get(key, default)
dict_get(d, key, default) == IF key \in DOMAIN d THEN d[key] ELSE default

\* x in list
list_contains(list, x) == \E i \in 1..Len(list) : list[i] = x

\* f"Wait {n}sec"
wait_step(n) == <<"W","a","i","t"," ">> \o str_of_int(n) \o <<"s","e","c">>

\* -------------------------------------------------------- DataAppAnalyzer

\* the directory extract_zip extracts to
ExtractPath == <<"/","t","m","p","/","d","a","t","a","a","p","p","_","e","x","t","r","a","c","t","_","k","3","x","9","q","2","a","b">>

\* DataAppAnalyzer.__init__; app_type "None" is None, ui_graph <<>> is {}
DataAppAnalyzer_init ==
    [app_type |-> "None", ui_type |-> "tabbed_dashboard", navigation_items |-> <<>>,
     ui_graph |-> <<>>]

\* the list files of detect_app_type: os.path.join(root, f) of every file
walk_paths(t) == {ExtractPath \o <<"/">> \o f.path : f \in t}

\* detect_app_type with the script-dashboard check evaluated first
detect_app_type_streamlit_first(t) ==
    LET files == walk_paths(t)
        any_has(sub) == \E f \in files : str_contains(f, sub)
        count(bools) == Cardinality({i \in 1..Len(bools) : bools[i]})
        react_score ==
            count(<<any_has(<<"p","a","c","k","a","g","e",".","j","s","o","n">>), any_has(<<"v","i","t","e",".","c","o","n","f","i","g">>),
                    any_has(<<"A","p","p",".","t","s","x">>) \/ any_has(<<"A","p","p",".","j","s","x">>), any_has(<<"t","s","c","o","n","f","i","g",".","j","s","o","n">>)>>)
        streamlit_score ==
            count(<<any_has(<<"r","e","q","u","i","r","e","m","e","n","t","s",".","t","x","t">>),
                    any_has(<<"m","a","i","n",".","p","y">>) \/ any_has(<<"a","p","p",".","p","y">>), any_has(<<".","s","t","r","e","a","m","l","i","t">>)>>)
    IN  IF streamlit_score >= 1 THEN "streamlit"
        ELSE IF react_score >= 2 THEN "react"
        ELSE "streamlit"

\* the value detect_app_type returns and stores in self.app_type
detect_app_type(t) ==
    LET files == walk_paths(t)
        any_has(sub) == \E f \in files : str_contains(f, sub)
        count(bools) == Cardinality({i \in 1..Len(bools) : bools[i]})
        has_package_json == any_has(<<"p","a","c","k","a","g","e",".","j","s","o","n">>)
        has_vite == any_has(<<"v","i","t","e",".","c","o","n","f","i","g">>)
        has_app_tsx == \E f \in files : str_contains(f, <<"A","p","p",".","t","s","x">>) \/ str_contains(f, <<"A","p","p",".","j","s","x">>)
        has_tsconfig == any_has(<<"t","s","c","o","n","f","i","g",".","j","s","o","n">>)
        has_requirements == any_has(<<"r","e","q","u","i","r","e","m","e","n","t","s",".","t","x","t">>)
        has_main_py == \E f \in files : str_contains(f, <<"m","a","i","n",".","p","y">>) \/ str_contains(f, <<"a","p","p",".","p","y">>)
        has_streamlit_dir == any_has(<<".","s","t","r","e","a","m","l","i","t">>)
        react_score == count(<<has_package_json, has_vite, has_app_tsx, has_tsconfig>>)
        streamlit_score == count(<<has_requirements, has_main_py, has_streamlit_dir>>)
    IN  IF react_score >= 2 THEN "react"
        ELSE IF streamlit_score >= 1 THEN "streamlit"
        ELSE "streamlit"

\* The source lines a file's content is made of and, for each, the regular
\* expressions searched for by detect_ui_type, extract_chat_entry_points and
\* _detect_elements_in_file that find a match in it (those that the code
\* applies to content_lower, in the lower-cased line).  A content holds its
\* lines in the order of SnippetOrder, and no expression matches across two
\* of these lines, so a search in a content is a search in its lines.
\*   new_chat           'New Chat'
\*   prompt_library     promptLibrary
\*   refine             {t('Refine')}
\*   refined            refinedQuery
\*   on_click           onClick={handle}
\*   chat_history       Chat History
\*   ask_about          Ask about your data
\*   light_mode         'Light Mode'
\*   route              path="/overview"
\*   upper_route        PATH="/overview"
\*   header_tabs        HEADER_TABS = [
\*   st_tabs            st.tabs(["Overview", "Schedule"])
\*   mui_tab            <Tab label="Overview" />
\*   chats_label        <ListSubheader>CHATS</ListSubheader>
\*   best_practices     <Link>Know the best practices</Link>
\*   send_message       sendMessage(text)
\*   route_overview     <Route path="/overview" element={<Overview />} />
\*   route_ask_ai       <Route path="/ask-ai" element={<AskAI />} />
\*   route_askai        <Route path="/AskAI" element={AskAI} />
\*   nav_array          const navItems = [{ label: 'Billing', key: 'billing' }]
\*   header_tabs_names  export const HEADER_TABS = [{ name: 'Schedule' }, { name: 'ask_ai' }]
\*   st_selectbox       page = st.sidebar.selectbox("Page", ["overview", "Ask-AI"])
\*   vite_base_a        base: '/dataapps/11111111-2222-3333-4444-555555555555/',
\*   vite_base_b        base: "/dataapps/aaaaaaaa-bbbb-cccc-dddd-eeeeeeeeeeee/",
\*   vite_base_dev      base: mode === "production" ? "/dataapps/99999999-8888-7777-6666-555555555555/" : "/",
\*   pkg_alpha          {"name": "alpha-app"}
\*   pkg_beta           {"name": "beta"}
\*   pkg_template       {"name": "mte-react-dataapp"}
\*   const_app_name     export const APP_NAME = 'Gamma';
\*   const_tenant       export const TENANT = "Acme";
\*   cfg_app_name       const config = { app_name: "Delta" };
\*   cfg_tenant         const tenant = 'Globex';
\*   comp_overview      const Overview = () => <FilterBar />
\*   comp_ask_ai        export default function AskAI() { return <GanttChart /> }
\*   carousel           <Carousel items={items} />
\*   queue_panel        <QueuePanel jobs={jobs} />
\*   edit_mode          <Button onClick={toggleEditMode}>Edit Mode</Button>
\*   view_only          <Chip label="View Only" />
\*   save_reset         <Toolbar onSave={save} onReset={reset} />
\*   finalize           <Button onClick={onFinalize}>Finalize</Button>
\*   changeover_modal   <ChangeoverModal open={open} />
\*   filter_modal       <FilterModal open={open} />
\*   mo_details         <MODetailsPanel order={order} />
\*   gantt              <GanttChart rows={rows} />
\*   select             <Select value={line} options={lines} />
SnippetMatches ==
    [new_chat |-> {"new\\s+chat|newchat",
                 "[\"\\']([Nn]ew\\s+[Cc]hat)[\"\\']"},
     prompt_library |-> {"prompt\\s*library|promptlibrary",
                       "Prompt\\s*Library|promptLibrary|prompt.?library"},
     refine |-> {"\\brefine\\b",
               "[\"\\']([Rr]efine)[\"\\']",
               "\\bRefine\\b"},
     refined |-> {},
     on_click |-> {"button|click|onClick",
                 "button|Button|onClick"},
     chat_history |-> {"chats?\\s*(list|section|sidebar)|conversation\\s*list|chat\\s*history"},
     ask_about |-> {"placeholder.*ask|ask\\s+about|message\\s*input|chat\\s*input|send\\s*message"},
     light_mode |-> {"light\\s*mode|theme\\s*toggle",
                   "[\"\\']([Ll]ight\\s+[Mm]ode)[\"\\']",
                   "Light\\s*Mode"},
     route |-> {"path\\s*=\\s*['\"](/[\\w-]+)+['\"]"},
     upper_route |-> {},
     header_tabs |-> {"HEADER_TABS\\s*=\\s*\\[|st\\.tabs\\s*\\(\\s*\\["},
     st_tabs |-> {"HEADER_TABS\\s*=\\s*\\[|st\\.tabs\\s*\\(\\s*\\["},
     mui_tab |-> {"<Tab\\s+[^>]*label="},
     chats_label |-> {"CHATS"},
     best_practices |-> {"best\\s*practices|know\\s*the\\s*best"},
     send_message |-> {"placeholder.*ask|ask\\s+about|message\\s*input|chat\\s*input|send\\s*message",
                     "Send\\s*message|sendMessage|Send\\s*message"},
     route_overview |-> {"path\\s*=\\s*['\"](/[\\w-]+)+['\"]"},
     route_ask_ai |-> {"path\\s*=\\s*['\"](/[\\w-]+)+['\"]"},
     route_askai |-> {"path\\s*=\\s*['\"](/[\\w-]+)+['\"]"},
     nav_array |-> {},
     header_tabs_names |-> {"HEADER_TABS\\s*=\\s*\\[|st\\.tabs\\s*\\(\\s*\\["},
     st_selectbox |-> {"select|Select|dropdown|Dropdown"},
     vite_base_a |-> {},
     vite_base_b |-> {},
     vite_base_dev |-> {},
     pkg_alpha |-> {},
     pkg_beta |-> {},
     pkg_template |-> {},
     const_app_name |-> {},
     const_tenant |-> {},
     cfg_app_name |-> {},
     cfg_tenant |-> {},
     comp_overview |-> {"Filter|filter"},
     comp_ask_ai |-> {"Gantt|gantt"},
     carousel |-> {"Carousel|carousel"},
     queue_panel |-> {"Queue.*Panel|QueuePanel"},
     edit_mode |-> {"button|click|onClick",
                  "button|Button|onClick",
                  "Edit.*Mode|shuffleMode|Edit Mode"},
     view_only |-> {"View.*Mode|View Only"},
     save_reset |-> {"Save|onSave",
                   "Reset|onReset|onUndo"},
     finalize |-> {"button|click|onClick",
                 "button|Button|onClick",
                 "Finalize|onFinalize"},
     changeover_modal |-> {"Changeover|changeover",
                         "ChangeoverModal|Changeover.*modal"},
     filter_modal |-> {"Filter|filter",
                     "FilterModal|Filter.*modal"},
     mo_details |-> {"MODetailsPanel|MO.*Details"},
     gantt |-> {"Gantt|gantt"},
     select |-> {"select|Select|dropdown|Dropdown"}]

\* the lines of SnippetMatches in the order a content holds them
SnippetOrder ==
    <<"new_chat", "prompt_library", "refine", "refined", "on_click",
      "chat_history", "ask_about", "light_mode", "route", "upper_route",
      "header_tabs", "st_tabs", "mui_tab", "chats_label", "best_practices",
      "send_message", "route_overview", "route_ask_ai", "route_askai", "nav_array",
      "header_tabs_names", "st_selectbox", "vite_base_a", "vite_base_b", "vite_base_dev",
      "pkg_alpha", "pkg_beta", "pkg_template", "const_app_name", "const_tenant",
      "cfg_app_name", "cfg_tenant", "comp_overview", "comp_ask_ai", "carousel",
      "queue_panel", "edit_mode", "view_only", "save_reset", "finalize",
      "changeover_modal", "filter_modal", "mo_details", "gantt", "select">>

\* for each line what the extracting expressions of extract_navigation,
\* extract_dataapp_url_info, analyze_tab_elements and _find_component_file
\* capture in it, in the order of the matches:
\*   path           path=['"]([^'"]+)['"]
\*   name           name:\s*['"]([^'"]+)['"]
\*   header_tabs    the names in the block of HEADER_TABS\s*=\s*\[(.*?)\]
\*   st_tabs        the quoted strings in the groups of st\.tabs\(\[([^\]]+)\]\)
\*   tab_label      <Tab\s+[^>]*label=['"]([^'"]+)['"]
\*   label_or_name  (?:label|name):\s*['"]([^'"]+)['"]
\*   nav_array      label, name, title and key in the blocks of
\*                  (?:navItems|menuItems|tabs)\s*=\s*\[(.*?)\]
\*   selectbox      the quoted strings in the blocks of
\*                  st\.(?:sidebar\.)?selectbox\s*\([^)]*\[(.*?)\]
\*   page_link      page_link\s*\([^)]*label\s*=\s*['"]([^'"]+)['"]
\*   base           base:\s*[^,}]+['"]([^'"]+)['"]  (first match)
\*   app_name       APP_NAME\s*[:=]\s*['"]([^'"]+)['"]  (first match)
\*   tenant         TENANT\s*[:=]\s*['"]([^'"]+)['"]  (first match)
\*   json_name      content.get('name', '') when the line is a JSON object
\*   routes1        path=['"]([^'"]+)['"].*?element=\{?<(\w+)\s*/>?\}?
\*   routes2        path=['"]([^'"]+)['"].*?element=\{(\w+)\}
\*   const          the names X for which "const X" is in the line
\* A line that has no entry for an expression holds no match of it.
SnippetFinds ==
    [new_chat |-> [const |-> <<>>],
     prompt_library |-> [const |-> <<>>],
     refine |-> [const |-> <<>>],
     refined |-> [const |-> <<>>],
     on_click |-> [const |-> <<>>],
     chat_history |-> [const |-> <<>>],
     ask_about |-> [const |-> <<>>],
     light_mode |-> [const |-> <<>>],
     route |-> [path |-> <<<<"/","o","v","e","r","v","i","e","w">>>>],
     upper_route |-> [const |-> <<>>],
     header_tabs |-> [const |-> <<>>],
     st_tabs |-> [st_tabs |-> <<<<"O","v","e","r","v","i","e","w">>, <<"S","c","h","e","d","u","l","e">>>>],
     mui_tab |-> [tab_label |-> <<<<"O","v","e","r","v","i","e","w">>>>],
     chats_label |-> [const |-> <<>>],
     best_practices |-> [const |-> <<>>],
     send_message |-> [const |-> <<>>],
     route_overview |-> [path |-> <<<<"/","o","v","e","r","v","i","e","w">>>>,
                       routes1 |-> <<<<<<"/","o","v","e","r","v","i","e","w">>, <<"O","v","e","r","v","i","e","w">>>>>>],
     route_ask_ai |-> [path |-> <<<<"/","a","s","k","-","a","i">>>>,
                     routes1 |-> <<<<<<"/","a","s","k","-","a","i">>, <<"A","s","k","A","I">>>>>>],
     route_askai |-> [path |-> <<<<"/","A","s","k","A","I">>>>,
                    routes2 |-> <<<<<<"/","A","s","k","A","I">>, <<"A","s","k","A","I">>>>>>],
     nav_array |-> [label_or_name |-> <<<<"B","i","l","l","i","n","g">>>>,
                  nav_array |-> <<<<"B","i","l","l","i","n","g">>, <<"b","i","l","l","i","n","g">>>>,
                  const |-> <<<<"n","a","v","I","t","e","m","s">>>>],
     header_tabs_names |-> [name |-> <<<<"S","c","h","e","d","u","l","e">>, <<"a","s","k","_","a","i">>>>,
                          header_tabs |-> <<<<"S","c","h","e","d","u","l","e">>, <<"a","s","k","_","a","i">>>>,
                          label_or_name |-> <<<<"S","c","h","e","d","u","l","e">>, <<"a","s","k","_","a","i">>>>,
                          const |-> <<<<"H","E","A","D","E","R","_","T","A","B","S">>>>],
     st_selectbox |-> [selectbox |-> <<<<"o","v","e","r","v","i","e","w">>, <<"A","s","k","-","A","I">>>>],
     vite_base_a |-> [base |-> <<<<"/","d","a","t","a","a","p","p","s","/","1","1","1","1","1","1","1","1","-","2","2","2","2","-","3","3","3","3","-","4","4","4","4","-","5","5","5","5","5","5","5","5","5","5","5","5","/">>>>],
     vite_base_b |-> [base |-> <<<<"/","d","a","t","a","a","p","p","s","/","a","a","a","a","a","a","a","a","-","b","b","b","b","-","c","c","c","c","-","d","d","d","d","-","e","e","e","e","e","e","e","e","e","e","e","e","/">>>>],
     vite_base_dev |-> [base |-> <<<<"/">>>>],
     pkg_alpha |-> [json_name |-> <<<<"a","l","p","h","a","-","a","p","p">>>>],
     pkg_beta |-> [json_name |-> <<<<"b","e","t","a">>>>],
     pkg_template |-> [json_name |-> <<<<"m","t","e","-","r","e","a","c","t","-","d","a","t","a","a","p","p">>>>],
     const_app_name |-> [app_name |-> <<<<"G","a","m","m","a">>>>,
                       const |-> <<<<"A","P","P","_","N","A","M","E">>>>],
     const_tenant |-> [tenant |-> <<<<"A","c","m","e">>>>,
                     const |-> <<<<"T","E","N","A","N","T">>>>],
     cfg_app_name |-> [name |-> <<<<"D","e","l","t","a">>>>,
                     label_or_name |-> <<<<"D","e","l","t","a">>>>,
                     app_name |-> <<<<"D","e","l","t","a">>>>,
                     const |-> <<<<"c","o","n","f","i","g">>>>],
     cfg_tenant |-> [tenant |-> <<<<"G","l","o","b","e","x">>>>,
                   const |-> <<<<"t","e","n","a","n","t">>>>],
     comp_overview |-> [const |-> <<<<"O","v","e","r","v","i","e","w">>>>],
     comp_ask_ai |-> [const |-> <<>>],
     carousel |-> [const |-> <<>>],
     queue_panel |-> [const |-> <<>>],
     edit_mode |-> [const |-> <<>>],
     view_only |-> [const |-> <<>>],
     save_reset |-> [const |-> <<>>],
     finalize |-> [const |-> <<>>],
     changeover_modal |-> [const |-> <<>>],
     filter_modal |-> [const |-> <<>>],
     mo_details |-> [const |-> <<>>],
     gantt |-> [const |-> <<>>],
     select |-> [const |-> <<>>]]

\* re.search(pattern, content) finds a match
re_search(pattern, content) == \E s \in content : pattern \in SnippetMatches[s]

\* what scan_content appends to chat_indicators and to tabbed_indicators
scan_content(content) ==
    LET on(cond, indicator) == IF cond THEN <<indicator>> ELSE <<>>
    IN  [chat |->
            on(re_search("new\\s+chat|newchat", content), "new_chat")
            \o on(re_search("prompt\\s*library|promptlibrary", content), "prompt_library")
            \o on(re_search("\\brefine\\b", content)
                  /\ re_search("button|click|onClick", content), "refine")
            \o on(re_search("chats?\\s*(list|section|sidebar)|conversation\\s*list|chat\\s*history",
                            content), "chat_list")
            \o on(re_search("placeholder.*ask|ask\\s+about|message\\s*input|chat\\s*input|send\\s*message",
                            content), "chat_input")
            \o on(re_search("light\\s*mode|theme\\s*toggle", content), "light_mode"),
         tabbed |->
            on(re_search("path\\s*=\\s*['\"](/[\\w-]+)+['\"]", content), "routes")
            \o on(re_search("HEADER_TABS\\s*=\\s*\\[|st\\.tabs\\s*\\(\\s*\\[", content), "tabs_config")
            \o on(re_search("<Tab\\s+[^>]*label=", content), "mui_tabs")]

\* file.endswith(('.tsx', '.jsx', '.ts', '.js', '.py'))
is_script_file(path) ==
    \E ext \in { <<".","t","s","x">>, <<".","j","s","x">>, <<".","t","s">>, <<".","j","s">>, <<".","p","y">> } : str_endswith(path, ext)

RECURSIVE scan_tree(_, _, _)
\* the os.walk loop of detect_ui_type over the files still to visit (in the
\* order the walk yields them, which the result does not depend on): the
\* final chat_indicators and tabbed_indicators
scan_tree(files, chat_indicators, tabbed_indicators) ==
    IF files = {} THEN [chat |-> chat_indicators, tabbed |-> tabbed_indicators]
    ELSE LET f == CHOOSE x \in files : TRUE
             found == scan_content(f.content)
         IN  IF is_script_file(f.path) /\ f.readable
             THEN scan_tree(files \ {f}, chat_indicators \o found.chat,
                            tabbed_indicators \o found.tabbed)
             ELSE scan_tree(files \ {f}, chat_indicators, tabbed_indicators)

\* len(set(indicators))
distinct_count(indicators) == Cardinality({indicators[i] : i \in 1..Len(indicators)})

\* detect_ui_type scoring every match, not every distinct kind
detect_ui_type_counting_matches(t) ==
    LET found == scan_tree(t, <<>>, <<>>)
        chat_score == Len(found.chat)
        tabbed_score == Len(found.tabbed)
    IN  IF chat_score >= 2 /\ tabbed_score <= 1 THEN "chat"
        ELSE IF tabbed_score >= 1 THEN "tabbed_dashboard"
        ELSE IF chat_score >= 1 THEN "chat"
        ELSE "tabbed_dashboard"

\* the value detect_ui_type returns and stores in self.ui_type
detect_ui_type(t) ==
    LET found == scan_tree(t, <<>>, <<>>)
        chat_score == distinct_count(found.chat)
        tabbed_score == distinct_count(found.tabbed)
    IN  IF chat_score >= 2 /\ tabbed_score <= 1 THEN "chat"
        ELSE IF tabbed_score >= 1 THEN "tabbed_dashboard"
        ELSE IF chat_score >= 1 THEN "chat"
        ELSE "tabbed_dashboard"

\* DataAppAnalyzer.detect_app_type
DetectAppType ==
    /\ analyzer' = [analyzer EXCEPT !.app_type = detect_app_type(tree)]
    /\ returned' = [method |-> "detect_app_type", value |-> detect_app_type(tree)]
    /\ UNCHANGED <<tree, zip_file, walk, frame, temp_dirs, fs_calls, proc,
                   gen_vars>>

\* DataAppAnalyzer.detect_ui_type
DetectUiType ==
    /\ analyzer' = [analyzer EXCEPT !.ui_type = detect_ui_type(tree)]
    /\ returned' = [method |-> "detect_ui_type", value |-> detect_ui_type(tree)]
    /\ UNCHANGED <<tree, zip_file, walk, frame, temp_dirs, fs_calls, proc,
                   gen_vars>>

NextTree == DetectAppType \/ DetectUiType

\* ------------------------------------------------------- platform config

_DEFAULT_PLATFORM_CONFIG ==
    [login |->
        [base_url_default |-> <<"h","t","t","p","s",":","/","/","a","p","p",".","r","a","p","i","d","c","a","n","v","a","s",".","a","i">>,
         steps |-> << <<"O","p","e","n"," ","{base_url}","/">>,
                      <<"E","n","t","e","r"," ","{email}"," ","i","n"," ","e","m","a","i","l">>,
                      <<"C","l","i","c","k"," ","N","e","x","t">>,
                      <<"E","n","t","e","r"," ","{password}"," ","i","n"," ","P","a","s","s","w","o","r","d">>,
                      <<"C","l","i","c","k"," ","S","i","g","n"," ","I","n">>,
                      <<"V","e","r","i","f","y"," ","D","a","s","h","b","o","a","r","d">> >>,
         email |-> <<"t","e","s","t","A","u","t","o","m","a","t","i","o","n","@","g","m","a","i","l",".","c","o","m">>,
         password |-> <<"t","e","s","t","A","u","t","o","m","a","t","i","o","n","0","3","@">>,
         post_login_wait_react_sec |-> 10,
         post_login_wait_streamlit_sec |-> 2],
     tenant_switching |->
        [steps |-> << <<"W","a","i","t"," ","2","s","e","c">>,
                      <<"C","l","i","c","k"," ","o","n"," ","x","p","a","t","h","=","/","/","*","[","@","d","a","t","a","-","t","e","s","t","i","d","=","\"","t","o","p","-","n","a","v","-","b","a","r","-","w","o","r","k","s","p","a","c","e","-","m","e","n","u","\"","]">>,
                      <<"W","a","i","t"," ","5","s","e","c">>,
                      <<"C","l","i","c","k"," ","o","n"," ","x","p","a","t","h","=","/","/","*","[","@","d","a","t","a","-","t","e","s","t","i","d","=","\"","w","o","r","k","s","p","a","c","e","-","m","e","n","u","-","t","e","n","a","n","t","-","n","a","m","e","\"","]">>,
                      <<"W","a","i","t"," ","5","s","e","c">>,
                      <<"E","n","t","e","r"," ","{tenant_search_term}"," ","i","n"," ","{tenant_search_input_label}">>,
                      <<"W","a","i","t"," ","5","s","e","c">>,
                      <<"C","l","i","c","k"," ","o","n"," ","x","p","a","t","h","=","/","/","*","[","@","t","e","s","t","-","i","d","=","\"","t","e","n","a","n","t","-","m","e","n","u","-","t","e","n","a","n","t","-","l","i","s","t","-","i","t","e","m","s","\"","]","/","l","i","[","1","]">>,
                      <<"W","a","i","t"," ","1","0","s","e","c">> >>,
         tenant_search_input_label |-> <<"T","y","p","e"," ","t","o"," ","s","e","a","r","c","h"," ","w","i","t","h"," ","A","I">>],
     app_launch |->
        [react |-> [wait_sec |-> 280],
         streamlit |-> [initial_wait_sec |-> 50, launching_wait_sec |-> 150,
                        final_wait_sec |-> 100, use_relaunch_conditional |-> TRUE]],
     verification |->
        [error_verify_react |-> <<"V","e","r","i","f","y"," ","n","o"," ","e","r","r","o","r"," ","m","e","s","s","a","g","e","s"," ","o","r"," ","e","x","c","e","p","t","i","o","n","s"," ","a","r","e"," ","d","i","s","p","l","a","y","e","d"," ","w","i","t","h"," ","A","I">>,
         error_verify_streamlit |-> <<"V","e","r","i","f","y"," ","n","o"," ","e","r","r","o","r"," ","m","e","s","s","a","g","e","s"," ","o","r"," ","e","x","c","e","p","t","i","o","n","s"," ","a","r","e"," ","d","i","s","p","l","a","y","e","d"," ","o","n"," ","U","I"," ","w","i","t","h"," ","A","I">>],
     wait_times |->
        [tab_click_react_sec |-> 30, tab_click_streamlit_sec |-> 20,
         chat_entry_sec |-> 5, ask_ai_react_sec |-> 60,
         ask_ai_streamlit_sec |-> 100, comprehensive_scroll_sec |-> 5]]

\* ------------------------------------------------------ TestStepGenerator

UI_TYPE_CHAT == "chat"

UI_TYPE_TABBED == "tabbed_dashboard"

\* _should_use_comprehensive_mode looking for the keywords in the description
\* as written
_should_use_comprehensive_mode_case_sensitive(desc) ==
    IF desc = <<>> THEN FALSE
    ELSE LET comprehensive_keywords ==
                 << <<"d","r","o","p","d","o","w","n">>, <<"b","u","t","t","o","n">>, <<"m","o","d","a","l">>, <<"c","l","i","c","k","a","b","l","e">>, <<"e","n","t","r","y"," ","p","o","i","n","t">>,
                    <<"i","n","t","e","r","a","c","t","i","v","e">>, <<"e","l","e","m","e","n","t">>, <<"c","o","m","p","r","e","h","e","n","s","i","v","e">>, <<"a","l","l">>, <<"e","a","c","h">>, <<"e","v","e","r","y">> >>
         IN  \E k \in 1..Len(comprehensive_keywords) :
                 str_contains(desc, comprehensive_keywords[k])

\* the value of self.comprehensive_mode for a description
_should_use_comprehensive_mode(desc) ==
    IF desc = <<>> THEN FALSE
    ELSE LET desc_lower == str_lower(desc)
             comprehensive_keywords ==
                 << <<"d","r","o","p","d","o","w","n">>, <<"b","u","t","t","o","n">>, <<"m","o","d","a","l">>, <<"c","l","i","c","k","a","b","l","e">>, <<"e","n","t","r","y"," ","p","o","i","n","t">>,
                    <<"i","n","t","e","r","a","c","t","i","v","e">>, <<"e","l","e","m","e","n","t">>, <<"c","o","m","p","r","e","h","e","n","s","i","v","e">>, <<"a","l","l">>, <<"e","a","c","h">>, <<"e","v","e","r","y">> >>
         IN  \E k \in 1..Len(comprehensive_keywords) :
                 str_contains(desc_lower, comprehensive_keywords[k])

_verify_step ==
    LET v == dict_get(config, "verification", _DEFAULT_PLATFORM_CONFIG.verification)
    IN  IF app_type = "react" THEN dict_get(v, "error_verify_react", <<>>)
        ELSE dict_get(v, "error_verify_streamlit", <<>>)

_wait_times == dict_get(config, "wait_times", _DEFAULT_PLATFORM_CONFIG.wait_times)

\* the steps add_login_steps appends
add_login_steps ==
    LET login_cfg == dict_get(config, "login", _DEFAULT_PLATFORM_CONFIG.login)
        base_url == IF str_contains(app_url, <<"/","a","p","p","s">>)
                    THEN str_split_first(app_url, <<"/","a","p","p","s">>)
                    ELSE dict_get(login_cfg, "base_url_default", <<"h","t","t","p","s",":","/","/","a","p","p",".","r","a","p","i","d","c","a","n","v","a","s",".","a","i">>)
        email == dict_get(login_cfg, "email", <<"t","e","s","t","A","u","t","o","m","a","t","i","o","n","@","g","m","a","i","l",".","c","o","m">>)
        password == dict_get(login_cfg, "password", <<"t","e","s","t","A","u","t","o","m","a","t","i","o","n","0","3","@">>)
        step_templates == dict_get(login_cfg, "steps", _DEFAULT_PLATFORM_CONFIG.login.steps)
        fields == [f \in {"{base_url}", "{email}", "{password}"} |->
                      CASE f = "{base_url}" -> base_url
                        [] f = "{email}" -> email
                        [] f = "{password}" -> password]
        wait_sec == IF app_type = "react"
                    THEN dict_get(login_cfg, "post_login_wait_react_sec", 10)
                    ELSE dict_get(login_cfg, "post_login_wait_streamlit_sec", 2)
    IN  [i \in 1..Len(step_templates) |-> str_format(step_templates[i], fields)]
        \o <<wait_step(wait_sec)>>

\* add_tenant_switching_steps searching for the tenant name as given
add_tenant_switching_steps_unstripped ==
    IF tenant_name = <<>> THEN <<>>
    ELSE LET tenant_cfg == dict_get(config, "tenant_switching",
                                    _DEFAULT_PLATFORM_CONFIG.tenant_switching)
             tsteps == dict_get(tenant_cfg, "steps",
                                _DEFAULT_PLATFORM_CONFIG.tenant_switching.steps)
             label == dict_get(tenant_cfg, "tenant_search_input_label",
                               <<"T","y","p","e"," ","t","o"," ","s","e","a","r","c","h"," ","w","i","t","h"," ","A","I">>)
             fields == [f \in {"{tenant_search_term}", "{tenant_search_input_label}"} |->
                           IF f = "{tenant_search_term}" THEN tenant_name ELSE label]
         IN  [i \in 1..Len(tsteps) |-> str_format(tsteps[i], fields)]

\* the steps add_tenant_switching_steps appends
add_tenant_switching_steps ==
    IF tenant_name = <<>> THEN <<>>
    ELSE LET tenant_cfg == dict_get(config, "tenant_switching",
                                    _DEFAULT_PLATFORM_CONFIG.tenant_switching)
             tsteps == dict_get(tenant_cfg, "steps",
                                _DEFAULT_PLATFORM_CONFIG.tenant_switching.steps)
             label == dict_get(tenant_cfg, "tenant_search_input_label",
                               <<"T","y","p","e"," ","t","o"," ","s","e","a","r","c","h"," ","w","i","t","h"," ","A","I">>)
             search_term == str_strip(tenant_name)
             fields == [f \in {"{tenant_search_term}", "{tenant_search_input_label}"} |->
                           IF f = "{tenant_search_term}" THEN search_term ELSE label]
         IN  [i \in 1..Len(tsteps) |-> str_format(tsteps[i], fields)]

\* add_app_launch_steps with no test of the family: the launch of a
\* streamlit application for every application
add_app_launch_steps_of_streamlit ==
    LET launch_cfg == dict_get(config, "app_launch", _DEFAULT_PLATFORM_CONFIG.app_launch)
        streamlit == dict_get(launch_cfg, "streamlit",
                              _DEFAULT_PLATFORM_CONFIG.app_launch.streamlit)
    IN  << <<"O","p","e","n"," ">> \o app_url >>
        \o << wait_step(dict_get(streamlit, "initial_wait_sec", 50)) >>
        \o (IF dict_get(streamlit, "use_relaunch_conditional", TRUE)
            THEN << <<"I","f","(","t","e","x","t","=","R","e","l","a","u","n","c","h",")"," ","t","h","e","n"," ","C","l","i","c","k"," ","o","n"," ","R","e","l","a","u","n","c","h">>,
                    <<"I","f","(","t","e","x","t","=","L","a","u","n","c","h","i","n","g",")"," ","t","h","e","n"," ","w","a","i","t"," ">>
                        \o str_of_int(dict_get(streamlit, "launching_wait_sec", 150))
                        \o <<"s","e","c">> >>
            ELSE <<>>)
        \o << wait_step(dict_get(streamlit, "final_wait_sec", 100)) >>

\* the steps add_app_launch_steps appends
add_app_launch_steps ==
    LET launch_cfg == dict_get(config, "app_launch", _DEFAULT_PLATFORM_CONFIG.app_launch)
    IN  << <<"O","p","e","n"," ">> \o app_url >> \o
        IF app_type = "react"
        THEN << wait_step(dict_get(dict_get(launch_cfg, "react", <<>>), "wait_sec", 280)) >>
        ELSE LET streamlit == dict_get(launch_cfg, "streamlit",
                                       _DEFAULT_PLATFORM_CONFIG.app_launch.streamlit)
             IN  << wait_step(dict_get(streamlit, "initial_wait_sec", 50)) >>
                 \o (IF dict_get(streamlit, "use_relaunch_conditional", TRUE)
                     THEN << <<"I","f","(","t","e","x","t","=","R","e","l","a","u","n","c","h",")"," ","t","h","e","n"," ","C","l","i","c","k"," ","o","n"," ","R","e","l","a","u","n","c","h">>,
                             <<"I","f","(","t","e","x","t","=","L","a","u","n","c","h","i","n","g",")"," ","t","h","e","n"," ","w","a","i","t"," ">>
                                 \o str_of_int(dict_get(streamlit, "launching_wait_sec", 150))
                                 \o <<"s","e","c">> >>
                     ELSE <<>>)
                 \o << wait_step(dict_get(streamlit, "final_wait_sec", 100)) >>

\* a click verified at once, with no wait after it
click_then_verify(label, sec, err_verify) ==
    << <<"C","l","i","c","k"," ","o","n"," ">> \o label \o <<" ","w","i","t","h"," ","A","I">>, err_verify >>

\* f"Click on {label} with AI", f"Wait {sec}sec", err_verify
click_wait_verify(label, sec, err_verify) ==
    << <<"C","l","i","c","k"," ","o","n"," ">> \o label \o <<" ","w","i","t","h"," ","A","I">>, wait_step(sec), err_verify >>

RECURSIVE chat_entry_steps_clicking_chats(_, _, _, _)
\* the loops of add_chat_ui_steps with a click for every sidebar label
chat_entry_steps_clicking_chats(labels, bucket, entry_sec, err_verify) ==
    IF labels = <<>> THEN <<>>
    ELSE LET label == Head(labels)
             rest == chat_entry_steps_clicking_chats(Tail(labels), bucket, entry_sec, err_verify)
         IN  IF bucket = "sidebar"
             THEN (IF label # <<>>
                   THEN click_wait_verify(label, entry_sec, err_verify) ELSE <<>>) \o rest
             ELSE IF label = <<>> \/ label = <<"S","e","n","d"," ","m","e","s","s","a","g","e">> THEN rest
             ELSE IF label = <<"b","e","s","t"," ","p","r","a","c","t","i","c","e","s"," ","l","i","n","k">>
                  THEN << <<"I","f","(","b","e","s","t"," ","p","r","a","c","t","i","c","e","s"," ","l","i","n","k"," ","v","i","s","i","b","l","e",")"," ","t","h","e","n"," ","C","l","i","c","k"," ","o","n"," ","b","e","s","t"," ","p","r","a","c","t","i","c","e","s"," ","l","i","n","k"," ","w","i","t","h"," ","A","I">>,
                          wait_step(entry_sec), err_verify >> \o rest
             ELSE click_wait_verify(label, entry_sec, err_verify) \o rest

RECURSIVE chat_entry_steps(_, _, _, _)
\* one of the two loops of add_chat_ui_steps over the labels of a bucket;
\* bucket is "sidebar" or "main"
chat_entry_steps(labels, bucket, entry_sec, err_verify) ==
    IF labels = <<>> THEN <<>>
    ELSE LET label == Head(labels)
             rest == chat_entry_steps(Tail(labels), bucket, entry_sec, err_verify)
         IN  IF bucket = "sidebar"
             THEN (IF label # <<>> /\ label # <<"C","H","A","T","S">>
                   THEN click_wait_verify(label, entry_sec, err_verify) ELSE <<>>) \o rest
             ELSE IF label = <<>> \/ label = <<"S","e","n","d"," ","m","e","s","s","a","g","e">> THEN rest
             ELSE IF label = <<"b","e","s","t"," ","p","r","a","c","t","i","c","e","s"," ","l","i","n","k">>
                  THEN << <<"I","f","(","b","e","s","t"," ","p","r","a","c","t","i","c","e","s"," ","l","i","n","k"," ","v","i","s","i","b","l","e",")"," ","t","h","e","n"," ","C","l","i","c","k"," ","o","n"," ","b","e","s","t"," ","p","r","a","c","t","i","c","e","s"," ","l","i","n","k"," ","w","i","t","h"," ","A","I">>,
                          wait_step(entry_sec), err_verify >> \o rest
             ELSE click_wait_verify(label, entry_sec, err_verify) \o rest

\* the steps add_chat_ui_steps appends
add_chat_ui_steps(entry_points) ==
    LET wt == _wait_times
        tab_sec == IF app_type = "react" THEN dict_get(wt, "tab_click_react_sec", 30)
                   ELSE dict_get(wt, "tab_click_streamlit_sec", 20)
        entry_sec == dict_get(wt, "chat_entry_sec", 5)
        err_verify == _verify_step
        sidebar == dict_get(entry_points, "sidebar", <<>>)
        main == dict_get(entry_points, "main", <<>>)
        scroll_sec == dict_get(wt, "comprehensive_scroll_sec", 5)
    IN  << <<"V","e","r","i","f","y"," ","a","p","p","l","i","c","a","t","i","o","n"," ","l","o","a","d","e","d"," ","w","i","t","h"," ","A","I">>, wait_step(tab_sec), err_verify >>
        \o chat_entry_steps(sidebar, "sidebar", entry_sec, err_verify)
        \o (IF list_contains(sidebar, <<"C","H","A","T","S">>)
            THEN << <<"I","f","(","c","h","a","t"," ","i","t","e","m"," ","v","i","s","i","b","l","e"," ","i","n"," ","C","H","A","T","S",")"," ","t","h","e","n"," ","C","l","i","c","k"," ","o","n"," ","f","i","r","s","t"," ","c","h","a","t"," ","i","t","e","m"," ","i","n"," ","C","H","A","T","S"," ","w","i","t","h"," ","A","I">>,
                    wait_step(entry_sec), err_verify >>
            ELSE <<>>)
        \o chat_entry_steps(main, "main", entry_sec, err_verify)
        \o << <<"E","n","t","e","r"," ","h","e","l","l","o"," ","i","n"," ","c","h","a","t"," ","i","n","p","u","t"," ","w","i","t","h"," ","A","I">>, wait_step(entry_sec),
              <<"C","l","i","c","k"," ","o","n"," ","S","e","n","d"," ","m","e","s","s","a","g","e"," ","w","i","t","h"," ","A","I">>, wait_step(tab_sec), err_verify >>
        \o << <<"S","c","r","o","l","l"," ","d","o","w","n"," ","w","i","t","h"," ","A","I">>, wait_step(scroll_sec), err_verify,
              <<"S","c","r","o","l","l"," ","u","p"," ","w","i","t","h"," ","A","I">>, wait_step(scroll_sec), err_verify >>

\* item_clean of the loop of add_navigation_steps
nav_item_clean(item) ==
    IF str_startswith(str_strip(item), <<"/">>) /\ str_contains(str_strip(item), <<"/">>)
    THEN LET c == str_strip(str_replace(str_replace(
                      str_strip_chars(str_strip(item), {"/"}), <<"-">>, <<" ">>), <<"_">>, <<" ">>))
         IN  IF str_contains(c, <<"/">>) THEN str_split_last(c, "/") ELSE c
    ELSE str_strip(str_replace(str_replace(item, <<"-">>, <<" ">>), <<"_">>, <<" ">>))

\* item_normalized of the loop of add_navigation_steps
nav_item_normalized(item) ==
    LET u == str_upper(nav_item_clean(item))
    IN  IF u = <<"A","S","K","A","I">> \/ u = <<"A","S","K","-","A","I">> THEN <<"A","S","K"," ","A","I">> ELSE u

RECURSIVE unique_items(_, _)
\* the first loop of add_navigation_steps, from a state of the set seen on
unique_items(navigation_items, seen) ==
    IF navigation_items = <<>> THEN <<>>
    ELSE LET item == Head(navigation_items)
             key == nav_item_normalized(item)
         IN  IF nav_item_clean(item) = <<>> \/ key \in seen
             THEN unique_items(Tail(navigation_items), seen)
             ELSE <<key>> \o unique_items(Tail(navigation_items), seen \cup {key})

\* order.get(x, 99)
tab_order(x) ==
    IF x = <<"O","V","E","R","V","I","E","W">> THEN 1
    ELSE IF x = <<"S","C","H","E","D","U","L","E">> THEN 2
    ELSE IF x = <<"A","S","K"," ","A","I">> THEN 3
    ELSE 99

\* (order.get(a, 99), a) < (order.get(b, 99), b)
tab_key_less(a, b) ==
    \/ tab_order(a) < tab_order(b)
    \/ tab_order(a) = tab_order(b) /\ str_less(a, b)

RECURSIVE sort_tabs_alphabetical(_)
\* a sort by label alone, without the order of the named tabs
sort_tabs_alphabetical(items) ==
    IF items = <<>> THEN <<>>
    ELSE LET rest == sort_tabs_alphabetical(Tail(items))
             x == Head(items)
             k == Cardinality({i \in 1..Len(rest) : str_less(rest[i], x)})
         IN  SubSeq(rest, 1, k) \o <<x>> \o SubSeq(rest, k + 1, Len(rest))

RECURSIVE sort_tabs(_)
\* unique_items.sort(key=lambda x: (order.get(x, 99), x)); the items are distinct
sort_tabs(items) ==
    IF items = <<>> THEN <<>>
    ELSE LET rest == sort_tabs(Tail(items))
             x == Head(items)
             k == Cardinality({i \in 1..Len(rest) : tab_key_less(rest[i], x)})
         IN  SubSeq(rest, 1, k) \o <<x>> \o SubSeq(rest, k + 1, Len(rest))

\* the steps add_comprehensive_steps_for_tab appends
add_comprehensive_steps_for_tab(tab_name) ==
    LET wt == _wait_times
        scroll_sec == dict_get(wt, "comprehensive_scroll_sec", 5)
        error_verify == _verify_step
        tab_name_upper == str_upper(tab_name)
        detected_elements == dict_get(tab_elements, tab_name_upper, <<>>)
        has(tag) == list_contains(detected_elements, tag)
        element_to_step ==
            << <<<<"E","d","i","t"," ","M","o","d","e"," ","b","u","t","t","o","n">>, <<"E","d","i","t"," ","M","o","d","e">>, <<"1","0","s","e","c">>>>,
               <<<<"V","i","e","w"," ","O","n","l","y"," ","M","o","d","e"," ","b","u","t","t","o","n">>, <<"V","i","e","w"," ","O","n","l","y"," ","M","o","d","e">>, <<"1","0","s","e","c">>>>,
               <<<<"F","i","l","t","e","r"," ","b","u","t","t","o","n">>, <<"F","i","l","t","e","r">>, <<"5","s","e","c">>>>,
               <<<<"C","h","a","n","g","e","o","v","e","r","s"," ","s","t","a","t"," ","b","o","x">>, <<"C","h","a","n","g","e","o","v","e","r","s">>, <<"5","s","e","c">>>>,
               <<<<"S","a","v","e"," ","b","u","t","t","o","n">>, <<"S","a","v","e">>, <<"1","0","s","e","c">>>>,
               <<<<"R","e","s","e","t"," ","b","u","t","t","o","n">>, <<"R","e","s","e","t">>, <<"1","0","s","e","c">>>>,
               <<<<"F","i","n","a","l","i","z","e"," ","b","u","t","t","o","n">>, <<"F","i","n","a","l","i","z","e">>, <<"1","0","s","e","c">>>> >>
        element_steps(e) ==
            IF has(e[1])
            THEN LET visibility_check ==
                         str_replace(str_replace(e[1], <<" ","b","u","t","t","o","n">>, <<>>), <<" ","s","t","a","t"," ","b","o","x">>, <<>>)
                 IN  << <<"I","f","(">> \o visibility_check \o <<" ","v","i","s","i","b","l","e",")"," ","t","h","e","n"," ","C","l","i","c","k"," ","o","n"," ">>
                            \o e[2] \o <<" ","w","i","t","h"," ","A","I">>,
                        <<"W","a","i","t"," ">> \o e[3],
                        error_verify >>
            ELSE <<>>
        probe(text) == << text, wait_step(scroll_sec), error_verify >>
    IN  probe(<<"S","c","r","o","l","l"," ","d","o","w","n"," ","w","i","t","h"," ","A","I">>) \o probe(<<"S","c","r","o","l","l"," ","u","p"," ","w","i","t","h"," ","A","I">>)
        \o element_steps(element_to_step[1]) \o element_steps(element_to_step[2])
        \o element_steps(element_to_step[3]) \o element_steps(element_to_step[4])
        \o element_steps(element_to_step[5]) \o element_steps(element_to_step[6])
        \o element_steps(element_to_step[7])
        \o (IF has(<<"F","i","l","t","e","r"," ","b","u","t","t","o","n">>)
            THEN probe(<<"I","f","(","F","i","l","t","e","r"," ","m","o","d","a","l"," ","v","i","s","i","b","l","e",")"," ","t","h","e","n"," ","C","l","i","c","k"," ","o","n"," ","C","l","o","s","e"," ","i","n"," ","F","i","l","t","e","r"," ","m","o","d","a","l"," ","w","i","t","h"," ","A","I">>)
            ELSE <<>>)
        \o (IF has(<<"C","h","a","n","g","e","o","v","e","r","s"," ","s","t","a","t"," ","b","o","x">>)
            THEN probe(<<"I","f","(","C","h","a","n","g","e","o","v","e","r"," ","m","o","d","a","l"," ","v","i","s","i","b","l","e",")"," ","t","h","e","n"," ","C","l","i","c","k"," ","o","n"," ","C","l","o","s","e"," ","i","n"," ","C","h","a","n","g","e","o","v","e","r"," ","m","o","d","a","l"," ","w","i","t","h"," ","A","I">>)
            ELSE <<>>)
        \o (IF has(<<"G","a","n","t","t"," ","c","h","a","r","t">>) \/ has(<<"s","c","h","e","d","u","l","e","d"," ","M","O"," ","b","l","o","c","k">>)
            THEN probe(<<"I","f","(","M","O"," ","D","e","t","a","i","l","s"," ","P","a","n","e","l"," ","v","i","s","i","b","l","e",")"," ","t","h","e","n"," ","C","l","i","c","k"," ","o","n"," ","C","l","o","s","e"," ","i","n"," ","M","O"," ","D","e","t","a","i","l","s"," ","P","a","n","e","l"," ","w","i","t","h"," ","A","I">>)
            ELSE <<>>)
        \o (IF has(<<"d","r","o","p","d","o","w","n">>)
            THEN probe(<<"I","f","(","d","r","o","p","d","o","w","n"," ","v","i","s","i","b","l","e",")"," ","t","h","e","n"," ","C","l","i","c","k"," ","o","n"," ","d","r","o","p","d","o","w","n"," ","w","i","t","h"," ","A","I">>)
                 \o probe(<<"I","f","(","d","r","o","p","d","o","w","n"," ","o","p","t","i","o","n"," ","v","i","s","i","b","l","e",")"," ","t","h","e","n"," ","C","l","i","c","k"," ","o","n"," ","f","i","r","s","t"," ","o","p","t","i","o","n"," ","i","n"," ","d","r","o","p","d","o","w","n"," ","w","i","t","h"," ","A","I">>)
            ELSE <<>>)
        \o (IF has(<<"G","a","n","t","t"," ","c","h","a","r","t">>) \/ has(<<"s","c","h","e","d","u","l","e","d"," ","M","O"," ","b","l","o","c","k">>)
            THEN probe(<<"I","f","(","a","n","y"," ","s","c","h","e","d","u","l","e","d"," ","M","O"," ","b","l","o","c","k"," ","v","i","s","i","b","l","e"," ","i","n"," ","G","a","n","t","t"," ","c","h","a","r","t",")"," ","t","h","e","n"," ","C","l","i","c","k"," ","o","n"," ","a","n","y"," ","s","c","h","e","d","u","l","e","d"," ","M","O"," ","b","l","o","c","k"," ","i","n"," ","G","a","n","t","t"," ","c","h","a","r","t"," ","w","i","t","h"," ","A","I">>)
                 \o probe(<<"I","f","(","M","O"," ","D","e","t","a","i","l","s"," ","P","a","n","e","l"," ","v","i","s","i","b","l","e",")"," ","t","h","e","n"," ","C","l","i","c","k"," ","o","n"," ","C","l","o","s","e"," ","i","n"," ","M","O"," ","D","e","t","a","i","l","s"," ","P","a","n","e","l"," ","w","i","t","h"," ","A","I">>)
            ELSE <<>>)
        \o (IF has(<<"Q","u","e","u","e"," ","P","a","n","e","l">>)
            THEN probe(<<"I","f","(","Q","u","e","u","e"," ","P","a","n","e","l"," ","v","i","s","i","b","l","e",")"," ","t","h","e","n"," ","S","c","r","o","l","l"," ","d","o","w","n"," ","i","n"," ","Q","u","e","u","e"," ","P","a","n","e","l"," ","w","i","t","h"," ","A","I">>)
                 \o probe(<<"I","f","(","Q","u","e","u","e"," ","P","a","n","e","l"," ","v","i","s","i","b","l","e",")"," ","t","h","e","n"," ","S","c","r","o","l","l"," ","u","p"," ","i","n"," ","Q","u","e","u","e"," ","P","a","n","e","l"," ","w","i","t","h"," ","A","I">>)
            ELSE <<>>)
        \o (IF has(<<"C","a","r","o","u","s","e","l"," ","n","e","x","t"," ","b","u","t","t","o","n">>) \/ has(<<"C","a","r","o","u","s","e","l"," ","p","r","e","v","i","o","u","s"," ","b","u","t","t","o","n">>)
            THEN probe(<<"I","f","(","C","a","r","o","u","s","e","l"," ","n","e","x","t"," ","v","i","s","i","b","l","e",")"," ","t","h","e","n"," ","C","l","i","c","k"," ","o","n"," ","C","a","r","o","u","s","e","l"," ","n","e","x","t"," ","w","i","t","h"," ","A","I">>)
                 \o probe(<<"I","f","(","C","a","r","o","u","s","e","l"," ","p","r","e","v","i","o","u","s"," ","v","i","s","i","b","l","e",")"," ","t","h","e","n"," ","C","l","i","c","k"," ","o","n"," ","C","a","r","o","u","s","e","l"," ","p","r","e","v","i","o","u","s"," ","w","i","t","h"," ","A","I">>)
            ELSE <<>>)

RECURSIVE tab_steps_probing_first(_, _, _)
\* the second loop of add_navigation_steps probing a tab before it is clicked
tab_steps_probing_first(items, tab_sec, err_verify) ==
    IF items = <<>> THEN <<>>
    ELSE (IF comprehensive_mode THEN add_comprehensive_steps_for_tab(Head(items)) ELSE <<>>)
         \o click_wait_verify(Head(items), tab_sec, err_verify)
         \o tab_steps_probing_first(Tail(items), tab_sec, err_verify)

RECURSIVE tab_steps(_, _, _)
\* the second loop of add_navigation_steps, over the sorted unique_items
tab_steps(items, tab_sec, err_verify) ==
    IF items = <<>> THEN <<>>
    ELSE click_wait_verify(Head(items), tab_sec, err_verify)
         \o (IF comprehensive_mode THEN add_comprehensive_steps_for_tab(Head(items)) ELSE <<>>)
         \o tab_steps(Tail(items), tab_sec, err_verify)

\* add_navigation_steps falling back to a built-in tab list when the code
\* gave no navigation item
add_navigation_steps_with_fallback(navigation_items) ==
    LET found == unique_items(navigation_items, {})
        items == IF found = <<>> THEN << <<"O","V","E","R","V","I","E","W">>, <<"S","C","H","E","D","U","L","E">>, <<"A","S","K"," ","A","I">> >> ELSE found
        wt == _wait_times
        tab_sec == IF app_type = "react" THEN dict_get(wt, "tab_click_react_sec", 30)
                   ELSE dict_get(wt, "tab_click_streamlit_sec", 20)
    IN  tab_steps(sort_tabs(items), tab_sec, _verify_step)

\* the steps add_navigation_steps appends
add_navigation_steps(navigation_items) ==
    LET items == unique_items(navigation_items, {})
        wt == _wait_times
        tab_sec == IF app_type = "react" THEN dict_get(wt, "tab_click_react_sec", 30)
                   ELSE dict_get(wt, "tab_click_streamlit_sec", 20)
        err_verify == _verify_step
    IN  IF items = <<>>
        THEN << <<"V","e","r","i","f","y"," ","a","p","p","l","i","c","a","t","i","o","n"," ","l","o","a","d","e","d"," ","w","i","t","h"," ","A","I">>, wait_step(tab_sec), err_verify >>
        ELSE tab_steps(sort_tabs(items), tab_sec, err_verify)

\* has_ask_ai looking for a variant in each step by itself
has_ask_ai_per_step(all_steps) ==
    LET ask_ai_variants == << <<"A","S","K"," ","A","I">>, <<"A","S","K","A","I">>, <<"A","S","K","-","A","I">>, <<"A","s","k"," ","A","I">>, <<"A","s","k","A","I">> >>
    IN  \E i \in 1..Len(all_steps) :
            \E v \in {str_lower(ask_ai_variants[k]) : k \in 1..Len(ask_ai_variants)} :
                str_contains(str_lower(all_steps[i]), v)

\* has_ask_ai of add_ask_ai_steps, for the value all_steps of self.steps
has_ask_ai(all_steps) ==
    LET ask_ai_variants == << <<"A","S","K"," ","A","I">>, <<"A","S","K","A","I">>, <<"A","S","K","-","A","I">>, <<"A","s","k"," ","A","I">>, <<"A","s","k","A","I">> >>
        joined == str_lower(str_join(all_steps, <<" ">>))
    IN  \E v \in {str_lower(ask_ai_variants[k]) : k \in 1..Len(ask_ai_variants)} :
            str_contains(joined, v)

\* the steps add_ask_ai_steps appends when self.steps is all_steps
add_ask_ai_steps(all_steps) ==
    IF has_ask_ai(all_steps)
    THEN LET wt == _wait_times
             ask_sec == IF app_type = "react" THEN dict_get(wt, "ask_ai_react_sec", 60)
                        ELSE dict_get(wt, "ask_ai_streamlit_sec", 100)
             entry_sec == dict_get(wt, "chat_entry_sec", 5)
         IN  << <<"E","n","t","e","r"," ","h","e","l","l","o"," ","i","n"," ","A","s","k"," ","A","I"," ","w","i","t","h"," ","A","I">>, wait_step(entry_sec),
                <<"C","l","i","c","k"," ","o","n"," ","S","e","n","d"," ","m","e","s","s","a","g","e"," ","w","i","t","h"," ","A","I">>, wait_step(ask_sec), _verify_step >>
    ELSE <<>>

\* add_final_verification appending the step a second time
add_final_verification_twice == << _verify_step, _verify_step >>

\* the step add_final_verification appends
add_final_verification == << _verify_step >>

\* the list nav of generate
generate_nav(navigation_items) ==
    IF navigation_items # <<>> THEN navigation_items
    ELSE dict_get(ui_graph, "navigation_items", <<>>)

\* the condition of generate's branch to add_chat_ui_steps
generate_is_chat ==
    /\ ui_type = UI_TYPE_CHAT
    /\ DOMAIN dict_get(ui_graph, "entry_points", <<>>) # {}

\* generate opening the application before it switches the tenant
generate_appends_launch_first(navigation_items) ==
    LET login == add_login_steps
        tenant == add_tenant_switching_steps
        launch == add_app_launch_steps
        before == steps \o login \o launch \o tenant
    IN  << <<"add_login_steps", login>>,
           <<"add_app_launch_steps", launch>>,
           <<"add_tenant_switching_steps", tenant>> >>
        \o (IF generate_is_chat
            THEN << <<"add_chat_ui_steps", add_chat_ui_steps(ui_graph.entry_points)>> >>
            ELSE LET navsteps == add_navigation_steps(generate_nav(navigation_items))
                 IN  << <<"add_navigation_steps", navsteps>>,
                        <<"add_ask_ai_steps", add_ask_ai_steps(before \o navsteps)>> >>)
        \o << <<"add_final_verification", add_final_verification>> >>

\* what one call of generate appends to self.steps, in order: for each method
\* it calls, the method's name and the steps the method appends
generate_appends(navigation_items) ==
    LET login == add_login_steps
        tenant == add_tenant_switching_steps
        launch == add_app_launch_steps
        before == steps \o login \o tenant \o launch
    IN  << <<"add_login_steps", login>>,
           <<"add_tenant_switching_steps", tenant>>,
           <<"add_app_launch_steps", launch>> >>
        \o (IF generate_is_chat
            THEN << <<"add_chat_ui_steps", add_chat_ui_steps(ui_graph.entry_points)>> >>
            ELSE LET navsteps == add_navigation_steps(generate_nav(navigation_items))
                 IN  << <<"add_navigation_steps", navsteps>>,
                        <<"add_ask_ai_steps", add_ask_ai_steps(before \o navsteps)>> >>)
        \o << <<"add_final_verification", add_final_verification>> >>

RECURSIVE appended_steps(_)
\* the steps of a sequence of (method, steps) pairs, concatenated
appended_steps(appends) ==
    IF appends = <<>> THEN <<>>
    ELSE Head(appends)[2] \o appended_steps(Tail(appends))

RECURSIVE appended_by(_)
\* for each step of a sequence of (method, steps) pairs, its method
appended_by(appends) ==
    IF appends = <<>> THEN <<>>
    ELSE [i \in 1..Len(Head(appends)[2]) |-> Head(appends)[1]]
         \o appended_by(Tail(appends))

\* ----------------------------------------------------------- the composer

\* TestStepGenerator.__init__; <<>> for platform_config is None (or {})
TestStepGenerator_init(a_type, a_url, tenant, desc, elements, u_type, graph, platform_config) ==
    /\ app_type = a_type
    /\ app_url = a_url
    /\ tenant_name = tenant
    /\ description = desc
    /\ tab_elements = elements
    /\ ui_type = u_type
    /\ ui_graph = graph
    /\ steps = <<>>
    /\ comprehensive_mode = _should_use_comprehensive_mode(desc)
    /\ config = IF DOMAIN platform_config = {} THEN _DEFAULT_PLATFORM_CONFIG
                ELSE platform_config
    /\ calls = <<>>
    /\ emitted_by = <<>>

\* generate sorting the list it was passed instead of a copy of it
Generate_sorting_argument ==
    /\ Len(calls) < MaxCalls
    /\ LET appends == generate_appends(nav_items)
           result == steps \o appended_steps(appends)
       IN  /\ steps' = result
           /\ emitted_by' = emitted_by \o appended_by(appends)
           /\ calls' = Append(calls, [navigation_items |-> nav_items,
                                      steps_before |-> Len(steps),
                                      returned |-> str_join(result, <<" ">>)])
    /\ nav_items' = sort_tabs(nav_items)
    /\ UNCHANGED <<app_type, app_url, tenant_name, description, tab_elements,
                   ui_type, ui_graph, comprehensive_mode, config, an_vars>>

\* TestStepGenerator.generate, called as main calls it:
\* generator.generate(analysis.get('navigation_items'))
Generate ==
    /\ Len(calls) < MaxCalls
    /\ LET appends == generate_appends(nav_items)
           result == steps \o appended_steps(appends)
       IN  /\ steps' = result
           /\ emitted_by' = emitted_by \o appended_by(appends)
           /\ calls' = Append(calls, [navigation_items |-> nav_items,
                                      steps_before |-> Len(steps),
                                      returned |-> str_join(result, <<" ">>)])
    /\ UNCHANGED <<app_type, app_url, tenant_name, description, tab_elements,
                   ui_type, ui_graph, comprehensive_mode, config, nav_items, an_vars>>

Next == Generate

\* ------------------------------------------------- inputs of the composer

AppTypes == {"react", "streamlit"}

\* an application URL of the platform, and one with no /apps path
AppUrls ==
    { <<"h","t","t","p","s",":","/","/","a","p","p",".","r","a","p","i","d","c","a","n","v","a","s",".","a","i","/","a","p","p","s","/","D","e","m","o","/","A","c","m","e","?","a","u","t","o","L","a","u","n","c","h","=","t","r","u","e">>,
      <<"h","t","t","p",":","/","/","l","o","c","a","l","h","o","s","t",":","8","5","0","1","/","A","s","k","A","I">> }

\* <<>> is tenant_name None (or '')
TenantNames == { <<>>, <<" ","A","c","m","e"," ">> }

\* <<>> is description None (or ''); the second is the default of main
Descriptions == { <<>>, <<"T","e","s","t"," ","a","l","l"," ","t","a","b","s"," ","a","n","d"," ","v","e","r","i","f","y"," ","n","o"," ","e","r","r","o","r","s">> }

TabElementInventories ==
    { <<>>,
      (<<"O","V","E","R","V","I","E","W">> :> << <<"F","i","l","t","e","r"," ","b","u","t","t","o","n">>, <<"F","i","l","t","e","r"," ","m","o","d","a","l">>, <<"d","r","o","p","d","o","w","n">> >>)
      @@ (<<"S","C","H","E","D","U","L","E">> :> << <<"E","d","i","t"," ","M","o","d","e"," ","b","u","t","t","o","n">>, <<"G","a","n","t","t"," ","c","h","a","r","t">>, <<"s","c","h","e","d","u","l","e","d"," ","M","O"," ","b","l","o","c","k">>,
                            <<"Q","u","e","u","e"," ","P","a","n","e","l">>, <<"C","a","r","o","u","s","e","l"," ","n","e","x","t"," ","b","u","t","t","o","n">>,
                            <<"C","a","r","o","u","s","e","l"," ","p","r","e","v","i","o","u","s"," ","b","u","t","t","o","n">> >>) }

EntryPointSets ==
    { [sidebar |-> << <<"N","e","w"," ","c","h","a","t">>, <<"C","H","A","T","S">> >>, main |-> << <<"S","e","n","d"," ","m","e","s","s","a","g","e">> >>],
      [sidebar |-> << <<"C","H","A","T","S">>, <<"L","i","g","h","t"," ","M","o","d","e">> >>,
       main |-> << <<"P","r","o","m","p","t"," ","L","i","b","r","a","r","y">>, <<"b","e","s","t"," ","p","r","a","c","t","i","c","e","s"," ","l","i","n","k">>, <<"S","e","n","d"," ","m","e","s","s","a","g","e">> >>] }

\* the ui_graph analyze builds for the chat paradigm
ChatGraph(entry_points) ==
    [ui_type |-> UI_TYPE_CHAT, entry_points |-> entry_points,
     navigation_items |-> <<>>, tab_elements |-> <<>>]

\* the ui_graph analyze builds for the tabbed paradigm (entry_points None)
TabbedGraph(navigation, elements) ==
    [ui_type |-> UI_TYPE_TABBED, entry_points |-> <<>>,
     navigation_items |-> navigation, tab_elements |-> elements]

\* a platform_config.json that sets some fields of some groups only
PartialConfig ==
    [login |-> [steps |-> << <<"O","p","e","n"," ","{base_url}","/","l","o","g","i","n">>, <<"E","n","t","e","r"," ","{email}"," ","i","n"," ","E","m","a","i","l">> >>,
                email |-> <<"q","a","@","e","x","a","m","p","l","e",".","c","o","m">>,
                post_login_wait_react_sec |-> 4],
     tenant_switching |->
         [steps |-> << <<"C","l","i","c","k"," ","o","n"," ","W","o","r","k","s","p","a","c","e","s">>,
                       <<"E","n","t","e","r"," ","{tenant_search_term}"," ","i","n"," ","{tenant_search_input_label}">>,
                       <<"C","l","i","c","k"," ","o","n"," ","A","s","k">>, <<"A","I"," ","s","u","g","g","e","s","t","e","d"," ","w","o","r","k","s","p","a","c","e">> >>],
     app_launch |-> [streamlit |-> [initial_wait_sec |-> 7, use_relaunch_conditional |-> FALSE]],
     wait_times |-> [tab_click_react_sec |-> 3, ask_ai_streamlit_sec |-> 12]]

\* <<>> is platform_config None (or {})
PlatformConfigs == { <<>>, PartialConfig }

\* (ui_graph navigation_items, generate argument): what main passes, an
\* empty analysis, an argument overriding the graph, and no argument
TabbedInputs ==
    { << << <<"o","v","e","r","v","i","e","w">>, <<"/","s","c","h","e","d","u","l","e">> >>, << <<"o","v","e","r","v","i","e","w">>, <<"/","s","c","h","e","d","u","l","e">> >> >>,
      << <<>>, <<>> >>,
      << << <<"o","v","e","r","v","i","e","w">>, <<"/","s","c","h","e","d","u","l","e">> >>, << <<"A","s","k","-","A","I">>, <<"b","i","l","l","i","n","g">> >> >>,
      << << <<"b","i","l","l","i","n","g">>, <<"a","s","k","a","i">> >>, <<>> >> }

\* navigation items as a source tree or a caller may give them
NavItems ==
    { <<"o","v","e","r","v","i","e","w">>, <<"/","S","c","h","e","d","u","l","e">>, <<"b","i","l","l","i","n","g">>, <<"a","s","k","a","i">>, <<"/","s","e","t","t","i","n","g","s","/","d","a","t","a","_","q","u","a","l","i","t","y">>, <<" ">> }

\* the lists of at most n navigation items
NavLists(n) == UNION {[1..k -> NavItems] : k \in 0..n}

\* files a source tree may hold
FilePool ==
    { [path |-> <<"p","a","c","k","a","g","e",".","j","s","o","n">>, readable |-> TRUE, content |-> {}],
      [path |-> <<"b","a","c","k","u","p","/","p","a","c","k","a","g","e",".","j","s","o","n",".","b","a","k">>, readable |-> TRUE, content |-> {}],
      [path |-> <<"v","i","t","e",".","c","o","n","f","i","g",".","t","s">>, readable |-> TRUE, content |-> {}],
      [path |-> <<"t","s","c","o","n","f","i","g",".","j","s","o","n">>, readable |-> TRUE, content |-> {}],
      [path |-> <<"s","r","c","/","A","p","p",".","t","s","x">>, readable |-> TRUE, content |-> {"route", "on_click"}],
      [path |-> <<"r","e","q","u","i","r","e","m","e","n","t","s",".","t","x","t">>, readable |-> TRUE, content |-> {}],
      [path |-> <<"m","a","i","n",".","p","y">>, readable |-> TRUE, content |-> {"st_tabs"}],
      [path |-> <<"p","a","g","e","s","/","m","y","a","p","p",".","p","y">>, readable |-> TRUE, content |-> {"upper_route"}],
      [path |-> <<".","s","t","r","e","a","m","l","i","t","/","c","o","n","f","i","g",".","t","o","m","l">>, readable |-> TRUE, content |-> {}],
      [path |-> <<"R","E","A","D","M","E",".","m","d">>, readable |-> TRUE, content |-> {}],
      [path |-> <<"d","o","c","s","/","c","h","a","t",".","m","d">>, readable |-> TRUE,
       content |-> {"new_chat", "prompt_library", "route"}],
      [path |-> <<"s","r","c","/","C","h","a","t",".","t","s","x">>, readable |-> TRUE, content |-> {"new_chat", "chat_history"}],
      [path |-> <<"s","r","c","/","S","i","d","e","b","a","r",".","j","s","x">>, readable |-> TRUE, content |-> {"new_chat", "light_mode"}],
      [path |-> <<"s","r","c","/","p","r","o","m","p","t","s",".","t","s">>, readable |-> TRUE, content |-> {"prompt_library"}],
      [path |-> <<"s","r","c","/","R","e","f","i","n","e",".","t","s","x">>, readable |-> TRUE, content |-> {"refine", "on_click"}],
      [path |-> <<"s","r","c","/","l","a","b","e","l","s",".","j","s">>, readable |-> TRUE, content |-> {"refine", "refined"}],
      [path |-> <<"s","r","c","/","I","n","p","u","t",".","t","s","x">>, readable |-> TRUE, content |-> {"ask_about"}],
      [path |-> <<"s","r","c","/","c","o","n","s","t","a","n","t","s",".","t","s">>, readable |-> TRUE, content |-> {"header_tabs"}],
      [path |-> <<"s","r","c","/","T","a","b","s",".","t","s","x">>, readable |-> TRUE, content |-> {"mui_tab", "header_tabs"}],
      [path |-> <<"s","r","c","/","B","r","o","k","e","n",".","t","s","x">>, readable |-> FALSE,
       content |-> {"new_chat", "light_mode", "mui_tab"}] }

RECURSIVE SubsetsUpTo(_, _)
\* the subsets of S of at most n elements
SubsetsUpTo(S, n) ==
    IF n = 0 THEN {{}}
    ELSE LET smaller == SubsetsUpTo(S, n - 1)
         IN  smaller \cup {x \cup {e} : x \in smaller, e \in S}

\* no analysis has run
NoAnalysis ==
    /\ tree = {}
    /\ analyzer = DataAppAnalyzer_init
    /\ returned = [method |-> "None", value |-> "None"]
    /\ zip_file = [readable |-> TRUE]
    /\ walk = <<>>
    /\ frame = [exception |-> "None", extract_path |-> <<>>, navigation |-> <<>>,
                url_info |-> <<>>, tab_elements |-> <<>>, entry_points |-> <<>>]
    /\ temp_dirs = {}
    /\ fs_calls = <<>>
    /\ proc = [pc |-> "none", app_url |-> <<>>, tenant_name |-> <<>>, description |-> <<>>,
               extract_path |-> <<>>, exit |-> "None"]

\* no composer is in use: one constructed with defaults, never called
NoComposer ==
    /\ TestStepGenerator_init("streamlit", <<>>, <<>>, <<>>, <<>>, UI_TYPE_TABBED, <<>>, <<>>)
    /\ nav_items = <<>>

\* a composer as main constructs it from an analysis, or with the
\* constructor's default ui_graph
Init ==
    /\ NoAnalysis
    /\ \E a_type \in AppTypes, a_url \in AppUrls, tenant \in TenantNames,
          desc \in Descriptions, elements \in TabElementInventories,
          platform_config \in PlatformConfigs :
           \/ \E ep \in EntryPointSets :
                  /\ TestStepGenerator_init(a_type, a_url, tenant, desc, elements,
                                            UI_TYPE_CHAT, ChatGraph(ep), platform_config)
                  /\ nav_items = <<>>
           \/ \E t \in TabbedInputs :
                  /\ TestStepGenerator_init(a_type, a_url, tenant, desc, elements,
                                            UI_TYPE_TABBED, TabbedGraph(t[1], elements),
                                            platform_config)
                  /\ nav_items = t[2]
           \/ /\ TestStepGenerator_init(a_type, a_url, tenant, desc, elements,
                                        UI_TYPE_CHAT, <<>>, platform_config)
              /\ nav_items = <<>>

\* the composer over every generate call of a composer
Spec == Init /\ [][Next]_vars

\* a tabbed composer of the default configuration with any list of navigation
\* items, passed as main passes it
InitTabs ==
    /\ NoAnalysis
    /\ \E nav \in NavLists(MaxNav) :
           /\ TestStepGenerator_init("react", <<"h","t","t","p","s",":","/","/","a","p","p",".","r","a","p","i","d","c","a","n","v","a","s",".","a","i","/","a","p","p","s","/","D","e","m","o","/","A","c","m","e","?","a","u","t","o","L","a","u","n","c","h","=","t","r","u","e">>, <<>>, <<>>, <<>>,
                                     UI_TYPE_TABBED, TabbedGraph(nav, <<>>), <<>>)
           /\ nav_items = nav

SpecTabs == InitTabs /\ [][Next]_vars

\* an extracted source tree of at most MaxFiles files
InitTree ==
    /\ tree \in SubsetsUpTo(FilePool, MaxFiles)
    /\ analyzer = DataAppAnalyzer_init
    /\ returned = [method |-> "None", value |-> "None"]
    /\ zip_file = [readable |-> TRUE]
    /\ walk = <<>>
    /\ frame = [exception |-> "None", extract_path |-> ExtractPath, navigation |-> <<>>,
                url_info |-> <<>>, tab_elements |-> <<>>, entry_points |-> <<>>]
    /\ temp_dirs = {ExtractPath}
    /\ fs_calls = <<[op |-> "mkdtemp", path |-> ExtractPath]>>
    /\ proc = [pc |-> "none", app_url |-> <<>>, tenant_name |-> <<>>, description |-> <<>>,
               extract_path |-> <<>>, exit |-> "None"]
    /\ NoComposer

SpecTree == InitTree /\ [][NextTree]_vars


\* ------------------------------------------ descriptions and entry points

\* descriptions a caller may give: none, one without a keyword, keywords in
\* capitals, the keywords of a request for every element, a keyword inside
\* another word, and a blank
ModeDescriptions ==
    { <<>>, <<"S","m","o","k","e"," ","t","e","s","t"," ","o","f"," ","t","h","e"," ","l","o","g","i","n">>, <<"C","l","i","c","k"," ","E","V","E","R","Y"," ","B","u","t","t","o","n">>,
      <<"c","l","i","c","k"," ","e","v","e","r","y"," ","b","u","t","t","o","n"," ","a","n","d"," ","d","r","o","p","d","o","w","n">>, <<"R","e","i","n","s","t","a","l","l"," ","a","n","d"," ","o","p","e","n">>, <<" ">> }

\* a tabbed composer of the default configuration for any description
InitModes ==
    /\ NoAnalysis
    /\ \E a_type \in AppTypes, desc \in ModeDescriptions,
          elements \in TabElementInventories, t \in TabbedInputs :
           /\ TestStepGenerator_init(a_type, <<"h","t","t","p","s",":","/","/","a","p","p",".","r","a","p","i","d","c","a","n","v","a","s",".","a","i","/","a","p","p","s","/","D","e","m","o","/","A","c","m","e","?","a","u","t","o","L","a","u","n","c","h","=","t","r","u","e">>, <<>>, desc, elements,
                                     UI_TYPE_TABBED, TabbedGraph(t[1], elements), <<>>)
           /\ nav_items = t[2]

SpecModes == InitModes /\ [][Next]_vars

\* the most labels a bucket of entry points holds
MaxEntries == 2

\* the labels extract_chat_entry_points puts in the sidebar and main buckets
SidebarLabels == { <<"N","e","w"," ","c","h","a","t">>, <<"C","H","A","T","S">>, <<"L","i","g","h","t"," ","M","o","d","e">> }
MainLabels == { <<"P","r","o","m","p","t"," ","L","i","b","r","a","r","y">>, <<"R","e","f","i","n","e">>, <<"b","e","s","t"," ","p","r","a","c","t","i","c","e","s"," ","l","i","n","k">>, <<"S","e","n","d"," ","m","e","s","s","a","g","e">> }

\* the sequences of at most n labels of S in which no label occurs twice
DistinctSeqs(S, n) ==
    {s \in UNION {[1..k -> S] : k \in 0..n} : \A i, j \in 1..Len(s) : i # j => s[i] # s[j]}

\* a chat composer of the default configuration for any entry points
InitChat ==
    /\ NoAnalysis
    /\ \E sidebar \in DistinctSeqs(SidebarLabels, MaxEntries),
          main \in DistinctSeqs(MainLabels, MaxEntries) :
           /\ TestStepGenerator_init("react", <<"h","t","t","p","s",":","/","/","a","p","p",".","r","a","p","i","d","c","a","n","v","a","s",".","a","i","/","a","p","p","s","/","D","e","m","o","/","A","c","m","e","?","a","u","t","o","L","a","u","n","c","h","=","t","r","u","e">>, <<>>, <<>>, <<>>,
                                     UI_TYPE_CHAT,
                                     ChatGraph([sidebar |-> sidebar, main |-> main]), <<>>)
           /\ nav_items = <<>>

SpecChat == InitChat /\ [][Next]_vars
\* ------------------------------------------------- the walk over the tree

RECURSIVE str_split(_, _)
\* s.split(c), c one character
str_split(s, c) ==
    LET hits == {i \in 1..Len(s) : s[i] = c}
    IN  IF hits = {} THEN <<s>>
        ELSE <<SubSeq(s, 1, SetMin(hits) - 1)>>
             \o str_split(SubSeq(s, SetMin(hits) + 1, Len(s)), c)

\* the directories above a file, outermost first
dir_of(path) == LET parts == str_split(path, "/") IN SubSeq(parts, 1, Len(parts) - 1)

\* the name of a file in its directory, file of os.walk's files
basename(path) == str_split_last(path, "/")

RECURSIVE Perms(_)
\* the orders in which the elements of S can be listed
Perms(S) == IF S = {} THEN {<<>>}
            ELSE UNION {{<<x>> \o p : p \in Perms(S \ {x})} : x \in S}

Concat(A, B) == {a \o b : a \in A, b \in B}

RECURSIVE walk_orders(_, _), walk_dirs(_, _)
\* the orders in which os.walk yields the files below the directories of
\* order, visited in this order
walk_dirs(t, order) ==
    IF order = <<>> THEN {<<>>}
    ELSE Concat(walk_orders(t, Head(order)), walk_dirs(t, Tail(order)))

\* the orders in which os.walk(dir) yields the files of tree t: the files of
\* a directory in the order the file system lists them, then its
\* subdirectories one after the other, in the order it lists them
walk_orders(t, dir) ==
    LET below == {f \in t : /\ Len(dir_of(f.path)) > Len(dir)
                            /\ SubSeq(dir_of(f.path), 1, Len(dir)) = dir}
        files == {f \in t : dir_of(f.path) = dir}
        subdirs == {SubSeq(dir_of(f.path), 1, Len(dir) + 1) : f \in below}
    IN  UNION {Concat(Perms(files), walk_dirs(t, order)) : order \in Perms(subdirs)}

\* os.walk(extract_path)
WalkOrders(t) == walk_orders(t, <<>>)

\* ------------------------------------------------ searches in a content

\* the lines of a content, first to last
content_lines(content) == SelectSeq(SnippetOrder, LAMBDA s : s \in content)

RECURSIVE flatten(_)
flatten(lists) == IF lists = <<>> THEN <<>> ELSE Head(lists) \o flatten(Tail(lists))

\* re.findall of the expression named key in a content (for the expressions
\* of a block, the matches of the inner expression in every block)
re_findall(key, content) ==
    LET lines == content_lines(content)
    IN  flatten([i \in 1..Len(lines) |->
                    IF key \in DOMAIN SnippetFinds[lines[i]]
                    THEN SnippetFinds[lines[i]][key] ELSE <<>>])

\* <<x>> if cond else <<>>: what a guarded append adds to a list
append_if(cond, x) == IF cond THEN <<x>> ELSE <<>>

RECURSIVE dict_fromkeys(_)
\* list(dict.fromkeys(list)): the first occurrence of every element
dict_fromkeys(list) ==
    IF list = <<>> THEN <<>>
    ELSE LET front == dict_fromkeys(SubSeq(list, 1, Len(list) - 1))
             last == list[Len(list)]
         IN  IF list_contains(front, last) THEN front ELSE Append(front, last)

\* ------------------------------------------------ extract_chat_entry_points

RECURSIVE chat_scan(_, _, _)
\* the os.walk loop of extract_chat_entry_points over the files still to
\* visit: the final lists sidebar and main
chat_scan(files, sidebar, main) ==
    IF files = <<>> THEN [sidebar |-> sidebar, main |-> main]
    ELSE LET f == Head(files)
             content == f.content
             s1 == sidebar
                   \o append_if(re_search("[\"\\']([Nn]ew\\s+[Cc]hat)[\"\\']", content), <<"N","e","w"," ","c","h","a","t">>)
             s2 == s1
                   \o append_if((re_search("[\"\\']([Cc][Hh][Aa][Tt][Ss])[\"\\']", content)
                                 \/ re_search("CHATS", content))
                                /\ ~list_contains(s1, <<"C","H","A","T","S">>), <<"C","H","A","T","S">>)
             s3 == s2
                   \o append_if(re_search("[\"\\']([Ll]ight\\s+[Mm]ode)[\"\\']", content)
                                \/ re_search("Light\\s*Mode", content), <<"L","i","g","h","t"," ","M","o","d","e">>)
             m == main
                  \o append_if(re_search("Prompt\\s*Library|promptLibrary|prompt.?library", content),
                               <<"P","r","o","m","p","t"," ","L","i","b","r","a","r","y">>)
                  \o append_if(re_search("[\"\\']([Rr]efine)[\"\\']", content)
                               \/ (re_search("\\bRefine\\b", content)
                                   /\ re_search("button|Button|onClick", content)), <<"R","e","f","i","n","e">>)
                  \o append_if(re_search("best\\s*practices|know\\s*the\\s*best", content),
                               <<"b","e","s","t"," ","p","r","a","c","t","i","c","e","s"," ","l","i","n","k">>)
                  \o append_if(re_search("Send\\s*message|sendMessage|Send\\s*message", content),
                               <<"S","e","n","d"," ","m","e","s","s","a","g","e">>)
         IN  IF (\E ext \in { <<".","t","s","x">>, <<".","j","s","x">>, <<".","t","s">>, <<".","j","s">> } :
                     str_endswith(basename(f.path), ext)) /\ f.readable
             THEN chat_scan(Tail(files), s3, m)
             ELSE chat_scan(Tail(files), sidebar, main)

\* extract_chat_entry_points returning the lists as the loop filled them
extract_chat_entry_points_keeping_repeats(files) ==
    LET found == chat_scan(files, <<>>, <<>>)
    IN  [sidebar |-> found.sidebar,
         main |-> IF list_contains(found.main, <<"S","e","n","d"," ","m","e","s","s","a","g","e">>) THEN found.main
                  ELSE Append(found.main, <<"S","e","n","d"," ","m","e","s","s","a","g","e">>)]

\* the value extract_chat_entry_points returns for the files os.walk yields
extract_chat_entry_points(files) ==
    LET found == chat_scan(files, <<>>, <<>>)
        sidebar == dict_fromkeys(found.sidebar)
        main == dict_fromkeys(found.main)
    IN  [sidebar |-> sidebar,
         main |-> IF list_contains(main, <<"S","e","n","d"," ","m","e","s","s","a","g","e">>) THEN main
                  ELSE Append(main, <<"S","e","n","d"," ","m","e","s","s","a","g","e">>)]

\* --------------------------------------------------------- extract_navigation

\* the concatenation of what Pick gives for the files, in their order
collect(files, Pick(_)) == flatten([i \in 1..Len(files) |-> Pick(files[i])])

\* the captures of the first match re.search finds for the expression named
\* key in a content; <<>> if there is none
re_search_first(key, content) ==
    LET lines == SelectSeq(content_lines(content),
                           LAMBDA s : key \in DOMAIN SnippetFinds[s])
    IN  IF lines = <<>> THEN <<>> ELSE SnippetFinds[Head(lines)][key]

\* normalize_nav_item of extract_navigation
normalize_nav_item(item) ==
    LET stripped == str_strip_chars(str_strip(item), {"/"})
        unslashed == IF str_startswith(stripped, <<"/">>) THEN Tail(stripped) ELSE stripped
        segment == IF str_contains(unslashed, <<"/">>) THEN str_split_last(unslashed, "/")
                   ELSE unslashed
    IN  str_strip(str_replace(str_replace(segment, <<"-">>, <<" ">>), <<"_">>, <<" ">>))

\* the list nav_items of extract_navigation when its loops are done; files
\* are the files as os.walk yields them, a_type and u_type are self.app_type
\* and self.ui_type
raw_nav_items(files, a_type, u_type) ==
    LET named(f, names) == basename(f.path) \in names /\ f.readable
        ends(f, exts) == (\E ext \in exts : str_endswith(basename(f.path), ext)) /\ f.readable
        routes == collect(files, LAMBDA f :
                      IF named(f, { <<"A","p","p",".","t","s","x">>, <<"A","p","p",".","j","s","x">>, <<"i","n","d","e","x",".","t","s","x">>, <<"i","n","d","e","x",".","j","s","x">> })
                      THEN re_findall("path", f.content) \o re_findall("name", f.content)
                      ELSE <<>>)
        header_tabs == collect(files, LAMBDA f :
                           IF named(f, { <<"c","o","n","s","t","a","n","t","s",".","t","s">>, <<"c","o","n","s","t","a","n","t","s",".","j","s">> })
                           THEN re_search_first("header_tabs", f.content) ELSE <<>>)
        st_tabs == collect(files, LAMBDA f :
                       IF named(f, { <<"m","a","i","n",".","p","y">>, <<"a","p","p",".","p","y">> })
                       THEN re_findall("st_tabs", f.content) ELSE <<>>)
        mui == collect(files, LAMBDA f :
                   IF ends(f, { <<".","t","s","x">>, <<".","j","s","x">> })
                   THEN re_findall("tab_label", f.content)
                        \o (IF u_type # UI_TYPE_CHAT
                            THEN re_findall("label_or_name", f.content)
                                 \o re_findall("nav_array", f.content)
                            ELSE <<>>)
                   ELSE <<>>)
        pages == collect(files, LAMBDA f :
                     IF ends(f, { <<".","p","y">> })
                     THEN re_findall("selectbox", f.content) \o re_findall("page_link", f.content)
                     ELSE <<>>)
    IN  (IF a_type = "react" THEN routes \o header_tabs
         ELSE IF a_type = "streamlit" THEN st_tabs ELSE <<>>)
        \o (IF a_type = "react" THEN mui ELSE <<>>)
        \o (IF a_type = "streamlit" THEN pages ELSE <<>>)

\* the value extract_navigation returns and stores in self.navigation_items
extract_navigation(files, a_type, u_type) ==
    LET found == SelectSeq(raw_nav_items(files, a_type, u_type), LAMBDA item : item # <<>>)
        normalized == [i \in 1..Len(found) |-> normalize_nav_item(found[i])]
    IN  SelectSeq(dict_fromkeys(normalized),
                  LAMBDA item : str_lower(item) \notin { <<>>, <<"/">>, <<"a","s","k","a","i">>, <<"a","s","k","-","a","i">> })

\* --------------------------------------------------- extract_dataapp_url_info

\* re.search(r'/dataapps/([a-f0-9-]{36})', base_path).group(1); <<>> if the
\* search finds nothing
dataapp_uuid(base_path) ==
    LET prefix == <<"/","d","a","t","a","a","p","p","s","/">>
        hex == {"a", "b", "c", "d", "e", "f", "0", "1", "2", "3", "4", "5", "6", "7", "8", "9", "-"}
        hits == {i \in 1..(Len(base_path) - Len(prefix) - 35) :
                    /\ SubSeq(base_path, i, i + Len(prefix) - 1) = prefix
                    /\ \A j \in 0..35 : base_path[i + Len(prefix) + j] \in hex}
    IN  IF hits = {} THEN <<>>
        ELSE SubSeq(base_path, SetMin(hits) + Len(prefix), SetMin(hits) + Len(prefix) + 35)

\* json.load reading the first JSON document of the file and no further
json_loads_first_document(content) ==
    /\ Len(content_lines(content)) >= 1
    /\ "json_name" \in DOMAIN SnippetFinds[content_lines(content)[1]]

\* json.load of a file gives a dict: the file is one line and the line is a
\* JSON object
json_loads(content) ==
    /\ Len(content_lines(content)) = 1
    /\ "json_name" \in DOMAIN SnippetFinds[content_lines(content)[1]]

RECURSIVE vite_loop(_, _)
\* the first loop of extract_dataapp_url_info over the files still to visit:
\* the final url_info['dataapp_id']
vite_loop(files, dataapp_id) ==
    IF files = <<>> THEN dataapp_id
    ELSE LET f == Head(files)
             base_match == re_search_first("base", f.content)
             uuid == IF base_match = <<>> THEN <<>> ELSE dataapp_uuid(base_match[1])
         IN  IF /\ basename(f.path) \in { <<"v","i","t","e",".","c","o","n","f","i","g",".","t","s">>, <<"v","i","t","e",".","c","o","n","f","i","g",".","j","s">> }
                /\ f.readable
                /\ uuid # <<>>
             THEN vite_loop(Tail(files), uuid)
             ELSE vite_loop(Tail(files), dataapp_id)

RECURSIVE package_loop(_, _)
\* the second loop: the value of url_info['app_slug'] after it
package_loop(files, app_slug) ==
    IF files = <<>> THEN app_slug
    ELSE LET f == Head(files)
             app_name == re_findall("json_name", f.content)[1]
         IN  IF /\ basename(f.path) = <<"p","a","c","k","a","g","e",".","j","s","o","n">>
                /\ f.readable
                /\ json_loads(f.content)
                /\ app_name # <<>>
                /\ app_name # <<"m","t","e","-","r","e","a","c","t","-","d","a","t","a","a","p","p">>
             THEN package_loop(Tail(files), app_name)
             ELSE package_loop(Tail(files), app_slug)

RECURSIVE constants_loop(_, _)
\* the third loop: the final url_info['app_slug'] and url_info['tenant_name']
constants_loop(files, info) ==
    IF files = <<>> THEN info
    ELSE LET f == Head(files)
             app_name_match == re_search_first("app_name", f.content)
             tenant_match == re_search_first("tenant", f.content)
         IN  IF /\ basename(f.path) \in { <<"c","o","n","s","t","a","n","t","s",".","t","s">>, <<"c","o","n","s","t","a","n","t","s",".","j","s">>,
                                          <<"c","o","n","f","i","g",".","t","s">>, <<"c","o","n","f","i","g",".","j","s">> }
                /\ f.readable
             THEN constants_loop(Tail(files),
                      [app_slug |-> IF app_name_match # <<>> THEN app_name_match[1]
                                    ELSE info.app_slug,
                       tenant_name |-> IF tenant_match # <<>> THEN tenant_match[1]
                                       ELSE info.tenant_name])
             ELSE constants_loop(Tail(files), info)

\* the value extract_dataapp_url_info returns; <<>> is None
extract_dataapp_url_info(files) ==
    LET named == constants_loop(files, [app_slug |-> package_loop(files, <<>>),
                                        tenant_name |-> <<>>])
    IN  [app_slug |-> named.app_slug,
         tenant_name |-> named.tenant_name,
         dataapp_id |-> vite_loop(files, <<>>),
         base_url |-> <<"h","t","t","p","s",":","/","/","a","p","p",".","r","a","p","i","d","c","a","n","v","a","s",".","a","i">>]

\* ------------------------------------------------------ analyze_tab_elements

\* _dir_to_tab_name; <<>> is None
_dir_to_tab_name(dir_name) ==
    LET dir_clean == str_strip(str_replace(str_replace(dir_name, <<"-">>, <<" ">>), <<"_">>, <<" ">>))
    IN  IF dir_clean = <<>>
           \/ str_lower(dir_clean) \in { <<"c","o","m","p","o","n","e","n","t","s">>, <<"u","t","i","l","s">>, <<"h","o","o","k","s">>, <<"a","s","s","e","t","s">>, <<"s","t","y","l","e","s">> }
        THEN <<>>
        ELSE str_upper(dir_clean)

\* _route_to_tab_name; <<>> is None
_route_to_tab_name(route) ==
    LET route_clean == str_replace(str_replace(
                           str_strip_chars(str_strip(route), {"/"}), <<"-">>, <<" ">>), <<"_">>, <<" ">>)
    IN  IF route_clean = <<>> \/ str_lower(route_clean) \in { <<>>, <<"/">> } THEN <<>>
        ELSE str_upper(IF str_contains(route_clean, <<"/">>)
                       THEN str_split_last(route_clean, "/") ELSE route_clean)

\* _detect_elements_in_file with one tag for a carousel and one for a Gantt
\* chart, and no handler of the exception of open and read
_detect_elements_in_file_single_tags(f) ==
    LET content == f.content
    IN  append_if(re_search("Filter|filter", content), <<"F","i","l","t","e","r"," ","b","u","t","t","o","n">>)
        \o append_if(re_search("Carousel|carousel", content), <<"C","a","r","o","u","s","e","l"," ","n","e","x","t"," ","b","u","t","t","o","n">>)
        \o append_if(re_search("Gantt|gantt", content), <<"G","a","n","t","t"," ","c","h","a","r","t">>)
        \o append_if(re_search("Queue.*Panel|QueuePanel", content), <<"Q","u","e","u","e"," ","P","a","n","e","l">>)

\* the list _detect_elements_in_file returns for a file
_detect_elements_in_file(f) ==
    IF ~f.readable THEN <<>>
    ELSE LET content == f.content
         IN  append_if(re_search("Edit.*Mode|shuffleMode|Edit Mode", content), <<"E","d","i","t"," ","M","o","d","e"," ","b","u","t","t","o","n">>)
             \o append_if(re_search("View.*Mode|View Only", content), <<"V","i","e","w"," ","O","n","l","y"," ","M","o","d","e"," ","b","u","t","t","o","n">>)
             \o append_if(re_search("Filter|filter", content), <<"F","i","l","t","e","r"," ","b","u","t","t","o","n">>)
             \o append_if(re_search("Save|onSave", content), <<"S","a","v","e"," ","b","u","t","t","o","n">>)
             \o append_if(re_search("Reset|onReset|onUndo", content), <<"R","e","s","e","t"," ","b","u","t","t","o","n">>)
             \o append_if(re_search("Finalize|onFinalize", content), <<"F","i","n","a","l","i","z","e"," ","b","u","t","t","o","n">>)
             \o append_if(re_search("Changeover|changeover", content), <<"C","h","a","n","g","e","o","v","e","r","s"," ","s","t","a","t"," ","b","o","x">>)
             \o append_if(re_search("FilterModal|Filter.*modal", content), <<"F","i","l","t","e","r"," ","m","o","d","a","l">>)
             \o append_if(re_search("ChangeoverModal|Changeover.*modal", content), <<"C","h","a","n","g","e","o","v","e","r"," ","m","o","d","a","l">>)
             \o append_if(re_search("MODetailsPanel|MO.*Details", content), <<"M","O"," ","D","e","t","a","i","l","s"," ","P","a","n","e","l">>)
             \o (IF re_search("Carousel|carousel", content)
                 THEN << <<"C","a","r","o","u","s","e","l"," ","n","e","x","t"," ","b","u","t","t","o","n">>, <<"C","a","r","o","u","s","e","l"," ","p","r","e","v","i","o","u","s"," ","b","u","t","t","o","n">> >> ELSE <<>>)
             \o (IF re_search("Gantt|gantt", content)
                 THEN << <<"G","a","n","t","t"," ","c","h","a","r","t">>, <<"s","c","h","e","d","u","l","e","d"," ","M","O"," ","b","l","o","c","k">> >> ELSE <<>>)
             \o append_if(re_search("Queue.*Panel|QueuePanel", content), <<"Q","u","e","u","e"," ","P","a","n","e","l">>)
             \o append_if(re_search("select|Select|dropdown|Dropdown", content), <<"d","r","o","p","d","o","w","n">>)

\* _find_component_file: <<f>> for the file f it returns, <<>> for None.  Of
\* the three tests on f.read() only the first reads the content (the file
\* is at its end for the second and the third), so a file is returned for
\* its "const {component_name}" only.
_find_component_file(files, component_name) ==
    LET defines(f) ==
            /\ basename(f.path) \in {component_name \o <<".","t","s","x">>, component_name \o <<".","j","s","x">>,
                                     <<"i","n","d","e","x",".","t","s","x">>, <<"i","n","d","e","x",".","j","s","x">>}
            /\ f.readable
            /\ \E i \in 1..Len(re_findall("const", f.content)) :
                   str_startswith(re_findall("const", f.content)[i], component_name)
        found == SelectSeq(files, defines)
    IN  IF found = <<>> THEN <<>> ELSE <<Head(found)>>

RECURSIVE dict_set(_, _, _)
\* d[key] = value on a dict held as the list of its items
dict_set(d, key, value) ==
    IF d = <<>> THEN << <<key, value>> >>
    ELSE IF Head(d)[1] = key THEN << <<key, value>> >> \o Tail(d)
    ELSE <<Head(d)>> \o dict_set(Tail(d), key, value)

RECURSIVE route_files(_, _, _)
\* the dict route_to_file after the loop over the routes of the App files
route_files(files, routes, route_to_file) ==
    IF routes = <<>> THEN route_to_file
    ELSE LET component_file == _find_component_file(files, Head(routes)[2])
         IN  route_files(files, Tail(routes),
                         IF component_file # <<>>
                         THEN dict_set(route_to_file, Head(routes)[1], component_file[1])
                         ELSE route_to_file)

\* the subdirectories of a directory in the order the walk visits them
listed_dirs(files, dir) ==
    LET below == SelectSeq(files, LAMBDA f : /\ Len(dir_of(f.path)) > Len(dir)
                                            /\ SubSeq(dir_of(f.path), 1, Len(dir)) = dir)
    IN  dict_fromkeys([i \in 1..Len(below) |-> SubSeq(dir_of(below[i].path), 1, Len(dir) + 1)])

RECURSIVE visited_dirs(_, _)
\* the directories below root in the order in which os.walk(root) yields
\* them as an element of dirs
visited_dirs(files, root) ==
    LET dirs == listed_dirs(files, root)
    IN  dirs \o flatten([i \in 1..Len(dirs) |-> visited_dirs(files, dirs[i])])

\* index_file of the fallback loop for a directory, as <<f>>, when
\* os.path.exists(index_file); else <<>>
index_file(files, dir) ==
    LET in_dir == SelectSeq(files, LAMBDA f : dir_of(f.path) = dir)
        named(name) == SelectSeq(in_dir, LAMBDA f : basename(f.path) = name)
        other == SelectSeq(in_dir, LAMBDA f :
                     /\ \E ext \in { <<".","t","s","x">>, <<".","j","s","x">> } : str_endswith(basename(f.path), ext)
                     /\ ~str_startswith(basename(f.path), <<"i","n","d","e","x">>))
    IN  IF named(<<"i","n","d","e","x",".","t","s","x">>) # <<>> THEN named(<<"i","n","d","e","x",".","t","s","x">>)
        ELSE IF named(<<"i","n","d","e","x",".","j","s","x">>) # <<>> THEN named(<<"i","n","d","e","x",".","j","s","x">>)
        ELSE IF other # <<>> THEN <<Head(other)>>
        ELSE <<>>

RECURSIVE page_tabs(_, _, _)
\* the fallback loops of analyze_tab_elements over the directories still to
\* visit: the dict tab_elements after them
page_tabs(files, dirs, elements) ==
    IF dirs = <<>> THEN elements
    ELSE LET dir == Head(dirs)
             tab_name == _dir_to_tab_name(dir[Len(dir)])
             file == index_file(files, dir)
         IN  page_tabs(files, Tail(dirs),
                       IF tab_name # <<>> /\ file # <<>> /\ tab_name \notin DOMAIN elements
                       THEN (tab_name :> _detect_elements_in_file(file[1])) @@ elements
                       ELSE elements)

RECURSIVE route_tabs(_, _)
\* the last loop of analyze_tab_elements over the items of route_to_file
\* still to visit; state is the dict tab_elements and the set of its keys
\* whose list has been rebuilt from a set
route_tabs(route_to_file, state) ==
    IF route_to_file = <<>> THEN state
    ELSE LET found == _detect_elements_in_file(Head(route_to_file)[2])
             tab_name == _route_to_tab_name(Head(route_to_file)[1])
         IN  route_tabs(Tail(route_to_file),
                 IF tab_name = <<>> THEN state
                 ELSE IF tab_name \in DOMAIN state.elements
                 THEN [elements |-> (tab_name :> state.elements[tab_name] \o found)
                                    @@ state.elements,
                       from_set |-> state.from_set \cup {tab_name}]
                 ELSE [elements |-> (tab_name :> found) @@ state.elements,
                       from_set |-> state.from_set])

\* analyze_tab_elements up to the order of the lists it rebuilds with
\* list(set(...)): the dict tab_elements and the keys of these lists
tab_elements_found(files, a_type) ==
    IF a_type # "react" THEN [elements |-> <<>>, from_set |-> {}]
    ELSE LET routes == collect(files, LAMBDA f :
                           IF basename(f.path) \in { <<"A","p","p",".","t","s","x">>, <<"A","p","p",".","j","s","x">> } /\ f.readable
                           THEN re_findall("routes1", f.content)
                                \o re_findall("routes2", f.content)
                           ELSE <<>>)
             route_to_file == route_files(files, routes, <<>>)
             page_dirs == << << <<"p","a","g","e","s">> >>, << <<"s","r","c">>, <<"p","a","g","e","s">> >>,
                             << <<"c","o","m","p","o","n","e","n","t","s">>, <<"p","a","g","e","s">> >> >>
             dirs == flatten([i \in 1..Len(page_dirs) |-> visited_dirs(files, page_dirs[i])])
         IN  route_tabs(route_to_file,
                        [elements |-> page_tabs(files, dirs, <<>>), from_set |-> {}])

\* the values analyze_tab_elements can return: a list rebuilt from a set
\* holds the elements of the set in any order
analyze_tab_elements(files, a_type) ==
    LET found == tab_elements_found(files, a_type)
        tabs == DOMAIN found.elements
        lists(tab) == IF tab \in found.from_set
                      THEN Perms({found.elements[tab][i] :
                                     i \in 1..Len(found.elements[tab])})
                      ELSE {found.elements[tab]}
    IN  IF tabs = {} THEN { <<>> }
        ELSE {g \in [tabs -> UNION {lists(tab) : tab \in tabs}] :
                 \A tab \in tabs : g[tab] \in lists(tab)}

\* ------------------------------------------------ DataAppAnalyzer.analyze

\* no analyze call has run: its local variables are unset
NoFrame ==
    [exception |-> "None", extract_path |-> <<>>, navigation |-> <<>>,
     url_info |-> <<>>, tab_elements |-> <<>>, entry_points |-> <<>>]

\* DataAppAnalyzer.extract_zip as analyze calls it, with no extract_to:
\* mkdtemp creates the directory, then the archive is opened and extracted,
\* which raises for an archive that cannot be read
ExtractZip ==
    /\ temp_dirs' = temp_dirs \cup {ExtractPath}
    /\ fs_calls' = Append(fs_calls, [op |-> "mkdtemp", path |-> ExtractPath])
    /\ IF zip_file.readable
       THEN /\ returned' = [method |-> "extract_zip", value |-> ExtractPath]
            /\ frame' = [frame EXCEPT !.extract_path = ExtractPath]
       ELSE /\ returned' = [method |-> "extract_zip", value |-> <<>>]
            /\ frame' = [frame EXCEPT !.exception = "BadZipFile"]
    /\ UNCHANGED <<tree, analyzer, zip_file, walk, proc, gen_vars>>

\* DataAppAnalyzer.extract_navigation
ExtractNavigation ==
    /\ LET nav == extract_navigation(walk, analyzer.app_type, analyzer.ui_type)
       IN  /\ analyzer' = [analyzer EXCEPT !.navigation_items = nav]
           /\ returned' = [method |-> "extract_navigation", value |-> nav]
           /\ frame' = [frame EXCEPT !.navigation = nav]
    /\ UNCHANGED <<tree, zip_file, walk, temp_dirs, fs_calls, proc, gen_vars>>

\* DataAppAnalyzer.extract_dataapp_url_info
ExtractDataappUrlInfo ==
    /\ returned' = [method |-> "extract_dataapp_url_info",
                    value |-> extract_dataapp_url_info(walk)]
    /\ frame' = [frame EXCEPT !.url_info = extract_dataapp_url_info(walk)]
    /\ UNCHANGED <<tree, analyzer, zip_file, walk, temp_dirs, fs_calls, proc,
                   gen_vars>>

\* DataAppAnalyzer.analyze_tab_elements
AnalyzeTabElements ==
    /\ \E elements \in analyze_tab_elements(walk, analyzer.app_type) :
           /\ returned' = [method |-> "analyze_tab_elements", value |-> elements]
           /\ frame' = [frame EXCEPT !.tab_elements = elements]
    /\ UNCHANGED <<tree, analyzer, zip_file, walk, temp_dirs, fs_calls, proc,
                   gen_vars>>

\* DataAppAnalyzer.extract_chat_entry_points
ExtractChatEntryPoints ==
    /\ returned' = [method |-> "extract_chat_entry_points",
                    value |-> extract_chat_entry_points(walk)]
    /\ frame' = [frame EXCEPT !.entry_points = extract_chat_entry_points(walk)]
    /\ UNCHANGED <<tree, analyzer, zip_file, walk, temp_dirs, fs_calls, proc,
                   gen_vars>>

\* the ui_graph of analyze with the extracted navigation in the chat graph too
analyze_ui_graph_keeping_navigation(u_type, locals) ==
    IF u_type = UI_TYPE_CHAT
    THEN [ui_type |-> UI_TYPE_CHAT, entry_points |-> locals.entry_points,
          navigation_items |-> locals.navigation, tab_elements |-> <<>>]
    ELSE TabbedGraph(locals.navigation, locals.tab_elements)

\* the ui_graph analyze builds from its local variables
analyze_ui_graph(u_type, locals) ==
    IF u_type = UI_TYPE_CHAT THEN ChatGraph(locals.entry_points)
    ELSE TabbedGraph(locals.navigation, locals.tab_elements)

\* the end of analyze: self.ui_graph is built and the analysis returned
AnalyzeReturn ==
    /\ LET graph == analyze_ui_graph(analyzer.ui_type, frame)
       IN  /\ analyzer' = [analyzer EXCEPT !.ui_graph = graph]
           /\ returned' =
                  [method |-> "analyze",
                   value |-> [app_type |-> analyzer.app_type,
                              ui_type |-> analyzer.ui_type,
                              ui_graph |-> graph,
                              navigation_items |->
                                  IF analyzer.ui_type = UI_TYPE_CHAT
                                  THEN graph.navigation_items ELSE frame.navigation,
                              url_info |-> frame.url_info,
                              tab_elements |-> frame.tab_elements,
                              extract_path |-> frame.extract_path]]
    /\ UNCHANGED <<tree, zip_file, walk, frame, temp_dirs, fs_calls, proc,
                   gen_vars>>

\* DataAppAnalyzer.analyze, call by call in the order of its statements
NextAnalyze ==
    \/ returned.method = "None" /\ ExtractZip
    \/ returned.method = "extract_zip" /\ frame.exception = "None" /\ DetectAppType
    \/ returned.method = "detect_app_type" /\ DetectUiType
    \/ returned.method = "detect_ui_type" /\ ExtractNavigation
    \/ returned.method = "extract_navigation" /\ ExtractDataappUrlInfo
    \/ returned.method = "extract_dataapp_url_info" /\ AnalyzeTabElements
    \/ /\ returned.method = "analyze_tab_elements"
       /\ analyzer.ui_type = UI_TYPE_CHAT
       /\ ExtractChatEntryPoints
    \/ /\ \/ returned.method = "analyze_tab_elements" /\ analyzer.ui_type # UI_TYPE_CHAT
          \/ returned.method = "extract_chat_entry_points"
       /\ AnalyzeReturn

\* files an archive may hold
AnalysisPool ==
    { [path |-> <<"p","a","c","k","a","g","e",".","j","s","o","n">>, readable |-> TRUE, content |-> {"pkg_alpha"}],
      [path |-> <<"c","l","i","e","n","t","/","p","a","c","k","a","g","e",".","j","s","o","n">>, readable |-> TRUE, content |-> {"pkg_beta"}],
      [path |-> <<"v","i","t","e",".","c","o","n","f","i","g",".","t","s">>, readable |-> TRUE, content |-> {"vite_base_a"}],
      [path |-> <<"c","l","i","e","n","t","/","v","i","t","e",".","c","o","n","f","i","g",".","j","s">>, readable |-> TRUE, content |-> {"vite_base_b"}],
      [path |-> <<"s","r","c","/","c","o","n","s","t","a","n","t","s",".","t","s">>, readable |-> TRUE,
       content |-> {"const_app_name", "const_tenant", "header_tabs_names"}],
      [path |-> <<"s","r","c","/","c","o","n","f","i","g",".","j","s">>, readable |-> TRUE,
       content |-> {"cfg_app_name", "cfg_tenant"}],
      [path |-> <<"s","r","c","/","A","p","p",".","t","s","x">>, readable |-> TRUE,
       content |-> {"route_overview", "route_ask_ai", "mui_tab"}],
      [path |-> <<"s","r","c","/","i","n","d","e","x",".","t","s","x">>, readable |-> TRUE, content |-> {"route_askai", "nav_array"}],
      [path |-> <<"s","r","c","/","p","a","g","e","s","/","O","v","e","r","v","i","e","w","/","O","v","e","r","v","i","e","w",".","t","s","x">>, readable |-> TRUE,
       content |-> {"comp_overview", "carousel"}],
      [path |-> <<"s","r","c","/","p","a","g","e","s","/","S","c","h","e","d","u","l","e","/","i","n","d","e","x",".","t","s","x">>, readable |-> TRUE,
       content |-> {"queue_panel"}],
      [path |-> <<"s","r","c","/","C","h","a","t",".","t","s","x">>, readable |-> TRUE, content |-> {"new_chat", "chats_label"}],
      [path |-> <<"s","r","c","/","S","i","d","e","b","a","r",".","j","s","x">>, readable |-> TRUE,
       content |-> {"new_chat", "light_mode", "prompt_library"}],
      [path |-> <<"s","r","c","/","I","n","p","u","t",".","t","s","x">>, readable |-> TRUE,
       content |-> {"send_message", "best_practices", "chats_label"}],
      [path |-> <<"m","a","i","n",".","p","y">>, readable |-> TRUE, content |-> {"st_tabs", "st_selectbox"}],
      [path |-> <<"s","r","c","/","B","r","o","k","e","n",".","t","s","x">>, readable |-> FALSE,
       content |-> {"new_chat", "route_overview"}] }

\* no run of main
NoMain ==
    [pc |-> "none", app_url |-> <<>>, tenant_name |-> <<>>, description |-> <<>>,
     extract_path |-> <<>>, exit |-> "None"]

\* a new DataAppAnalyzer for a readable archive of at most MaxFiles files,
\* and the order in which the file system lists the extracted files
InitAnalyze ==
    /\ tree \in SubsetsUpTo(AnalysisPool, MaxFiles)
    /\ walk \in WalkOrders(tree)
    /\ analyzer = DataAppAnalyzer_init
    /\ returned = [method |-> "None", value |-> "None"]
    /\ zip_file = [readable |-> TRUE]
    /\ frame = NoFrame
    /\ temp_dirs = {}
    /\ fs_calls = <<>>
    /\ proc = NoMain
    /\ NoComposer

SpecAnalyze == InitAnalyze /\ [][NextAnalyze]_vars
\* --------------------------------------------------------------------- main

\* the character of a code point from 32 to 126
Chr(n) == Ascii[n - 31]

HexDigits == <<"0", "1", "2", "3", "4", "5", "6", "7", "8", "9", "A", "B", "C", "D", "E", "F">>

\* the value of a hexadecimal digit; 16 for any other character
hex_value(c) ==
    LET upper == IF c \in DOMAIN ToUpper THEN ToUpper[c] ELSE c
        hits == {i \in 1..16 : HexDigits[i] = upper}
    IN  IF hits = {} THEN 16 ELSE SetMin(hits) - 1

\* urllib.parse.quote(s, safe='') of an ASCII str
quote(s) ==
    LET unreserved == {Chr(n) : n \in (48..57) \cup (65..90) \cup (97..122)}
                      \cup {"_", ".", "-", "~"}
    IN  flatten([i \in 1..Len(s) |->
                    IF s[i] \in unreserved THEN <<s[i]>>
                    ELSE <<"%", HexDigits[(Ord(s[i]) \div 16) + 1],
                           HexDigits[(Ord(s[i]) % 16) + 1]>>])

RECURSIVE unquote(_)
\* urllib.parse.unquote(s) of a str whose escapes are of printable ASCII
unquote(s) ==
    IF s = <<>> THEN <<>>
    ELSE IF /\ s[1] = "%"
            /\ Len(s) >= 3
            /\ hex_value(s[2]) < 16
            /\ hex_value(s[3]) < 16
            /\ 16 * hex_value(s[2]) + hex_value(s[3]) \in 32..126
         THEN <<Chr(16 * hex_value(s[2]) + hex_value(s[3]))>> \o unquote(SubSeq(s, 4, Len(s)))
         ELSE <<s[1]>> \o unquote(Tail(s))

\* s.split(sep)[-1]
str_after_last(s, sep) ==
    LET hits == {i \in 1..(Len(s) - Len(sep) + 1) : SubSeq(s, i, i + Len(sep) - 1) = sep}
    IN  IF hits = {} THEN s ELSE SubSeq(s, SetMax(hits) + Len(sep), Len(s))

\* extract_tenant_from_app_url; <<>> is None
extract_tenant_from_app_url(url) ==
    IF url = <<>> \/ ~str_contains(url, <<"/","a","p","p","s","/">>) THEN <<>>
    ELSE LET parts == str_split(str_strip_chars(
                          str_split_first(str_after_last(url, <<"/","a","p","p","s","/">>), <<"?">>), {"/"}), "/")
         IN  IF Len(parts) >= 2 THEN unquote(parts[Len(parts)]) ELSE <<>>

\* construct_url_from_info; <<>> is None
construct_url_from_info(url_info, provided_url) ==
    IF provided_url # <<>> THEN provided_url
    ELSE LET base_url == dict_get(url_info, "base_url", <<"h","t","t","p","s",":","/","/","a","p","p",".","r","a","p","i","d","c","a","n","v","a","s",".","a","i">>)
             slug == IF dict_get(url_info, "app_slug", <<>>) # <<>>
                     THEN url_info.app_slug ELSE dict_get(url_info, "dataapp_id", <<>>)
             tenant == dict_get(url_info, "tenant_name", <<>>)
         IN  IF slug = <<>> THEN <<>>
             ELSE IF tenant # <<>>
             THEN base_url \o <<"/","a","p","p","s","/">> \o quote(slug) \o <<"/">> \o quote(tenant)
                  \o <<"?","a","u","t","o","L","a","u","n","c","h","=","t","r","u","e">>
             ELSE base_url \o <<"/","a","p","p","s","/">> \o quote(slug) \o <<"?","a","u","t","o","L","a","u","n","c","h","=","t","r","u","e">>

\* app_url of main once the analysis is there
main_app_url == IF proc.app_url # <<>> THEN proc.app_url
                ELSE construct_url_from_info(returned.value.url_info, <<>>)

\* tenant_name of main once the analysis and app_url are there
main_tenant_name ==
    IF proc.tenant_name # <<>> THEN proc.tenant_name
    ELSE IF dict_get(returned.value.url_info, "tenant_name", <<>>) # <<>>
    THEN returned.value.url_info.tenant_name
    ELSE extract_tenant_from_app_url(main_app_url)

\* main up to the call of analyze: extract_path = None and a new analyzer
MainStart ==
    /\ proc.pc = "start"
    /\ proc' = [proc EXCEPT !.pc = "analyze", !.extract_path = <<>>]
    /\ analyzer' = DataAppAnalyzer_init
    /\ UNCHANGED <<tree, returned, zip_file, walk, frame, temp_dirs,
                   fs_calls, gen_vars>>

\* an exception leaves analyze: the except clause prints and raises again
MainExcept ==
    /\ proc.pc = "analyze"
    /\ frame.exception # "None"
    /\ proc' = [proc EXCEPT !.pc = "finally", !.exit = frame.exception]
    /\ UNCHANGED <<tree, analyzer, returned, zip_file, walk, frame,
                   temp_dirs, fs_calls, gen_vars>>

\* analyze has returned, no URL was given and none can be constructed:
\* sys.exit(1)
MainNoUrl ==
    /\ proc.pc = "analyze"
    /\ returned.method = "analyze"
    /\ main_app_url = <<>>
    /\ proc' = [proc EXCEPT !.pc = "finally", !.exit = "SystemExit(1)",
                            !.extract_path = returned.value.extract_path]
    /\ UNCHANGED <<tree, analyzer, returned, zip_file, walk, frame,
                   temp_dirs, fs_calls, gen_vars>>

\* analyze has returned and there is a URL: main up to the construction of
\* the TestStepGenerator, with the platform config that load_platform_config
\* finds
MainConstruct ==
    /\ proc.pc = "analyze"
    /\ returned.method = "analyze"
    /\ main_app_url # <<>>
    /\ proc' = [proc EXCEPT !.pc = "generate",
                            !.extract_path = returned.value.extract_path,
                            !.app_url = main_app_url,
                            !.tenant_name = main_tenant_name]
    /\ config' \in {IF DOMAIN platform_config = {} THEN _DEFAULT_PLATFORM_CONFIG
                     ELSE platform_config : platform_config \in PlatformConfigs}
    /\ app_type' = returned.value.app_type
    /\ app_url' = main_app_url
    /\ tenant_name' = main_tenant_name
    /\ description' = proc.description
    /\ tab_elements' = returned.value.tab_elements
    /\ ui_type' = returned.value.ui_type
    /\ ui_graph' = returned.value.ui_graph
    /\ steps' = <<>>
    /\ comprehensive_mode' = _should_use_comprehensive_mode(proc.description)
    /\ calls' = <<>>
    /\ emitted_by' = <<>>
    /\ nav_items' = returned.value.navigation_items
    /\ UNCHANGED <<tree, analyzer, returned, zip_file, walk, frame,
                   temp_dirs, fs_calls>>

\* the steps are printed and written to generated_test_steps.txt, which
\* succeeds or raises
MainSave ==
    /\ proc.pc = "generate"
    /\ calls # <<>>
    /\ \E outcome \in {"0", "OSError"} :
           proc' = [proc EXCEPT !.pc = "finally", !.exit = outcome]
    /\ UNCHANGED <<tree, analyzer, returned, zip_file, walk, frame,
                   temp_dirs, fs_calls, gen_vars>>

\* tempfile.gettempdir()
TempDir == <<"/","t","m","p">>

\* the finally clause of main, after which the process is gone
MainFinally ==
    /\ proc.pc = "finally"
    /\ IF /\ proc.extract_path # <<>>
          /\ proc.extract_path \in temp_dirs
          /\ str_startswith(proc.extract_path, TempDir)
       THEN /\ temp_dirs' = temp_dirs \ {proc.extract_path}
            /\ fs_calls' = Append(fs_calls, [op |-> "rmtree",
                                             path |-> proc.extract_path])
       ELSE UNCHANGED <<temp_dirs, fs_calls>>
    /\ proc' = [proc EXCEPT !.pc = "exited"]
    /\ UNCHANGED <<tree, analyzer, returned, zip_file, walk, frame, gen_vars>>

\* a run of main, statement by statement
NextMain ==
    \/ MainStart
    \/ proc.pc = "analyze" /\ NextAnalyze
    \/ MainExcept
    \/ MainNoUrl
    \/ MainConstruct
    \/ proc.pc = "generate" /\ calls = <<>> /\ Generate
    \/ MainSave
    \/ MainFinally

\* the files of the archives main is run on
MainPool ==
    {f \in AnalysisPool :
        f.path \in { <<"p","a","c","k","a","g","e",".","j","s","o","n">>, <<"v","i","t","e",".","c","o","n","f","i","g",".","t","s">>, <<"s","r","c","/","c","o","n","s","t","a","n","t","s",".","t","s">>, <<"s","r","c","/","A","p","p",".","t","s","x">>,
                     <<"s","r","c","/","C","h","a","t",".","t","s","x">>, <<"s","r","c","/","S","i","d","e","b","a","r",".","j","s","x">>, <<"m","a","i","n",".","p","y">> }}

\* main is started on an archive of at most MaxFiles files, or on one that
\* is no archive, with or without the app_url and tenant_name arguments
InitMain ==
    /\ tree \in SubsetsUpTo(MainPool, MaxFiles)
    /\ walk \in WalkOrders(tree)
    /\ zip_file \in {[readable |-> TRUE], [readable |-> FALSE]}
    /\ analyzer = DataAppAnalyzer_init
    /\ returned = [method |-> "None", value |-> "None"]
    /\ frame = NoFrame
    /\ temp_dirs = {}
    /\ fs_calls = <<>>
    /\ \E url \in { <<>>, <<"h","t","t","p","s",":","/","/","a","p","p",".","r","a","p","i","d","c","a","n","v","a","s",".","a","i","/","a","p","p","s","/","D","e","m","o","/","A","c","m","e","?","a","u","t","o","L","a","u","n","c","h","=","t","r","u","e">> },
          tenant \in { <<>>, <<"I","n","i","t","e","c","h">> } :
           proc = [pc |-> "start", app_url |-> url, tenant_name |-> tenant,
                   description |-> <<"T","e","s","t"," ","a","l","l"," ","t","a","b","s"," ","a","n","d"," ","v","e","r","i","f","y"," ","n","o"," ","e","r","r","o","r","s">>,
                   extract_path |-> <<>>, exit |-> "None"]
    /\ NoComposer

SpecMain == InitMain /\ [][NextMain]_vars

\* main has a statement left to execute: some step of NextMain is enabled
MainRunning == proc.pc \in {"start", "analyze", "generate", "finally"}

\* a statement of main was executed: every step of NextMain moves main's
\* position, returns from a method of the analyzer or makes the composer's
\* one call
MainStep == proc' # proc \/ returned' # returned \/ calls' # calls

\* the interpreter executes the next statement while there is one: weak
\* fairness of NextMain, with ENABLED <<NextMain>>_vars written as the state
\* predicate MainRunning that it is
MainRunsOn == []<>(~MainRunning) \/ []<><<MainStep>>_vars

\* main runs on to its exit, and the finally clause is executed
SpecMainFair == SpecMain /\ MainRunsOn /\ WF_vars(MainFinally)

\* ------------------------------------------- extract_zip with a target

\* the directories a caller passes as extract_to: one outside the temporary
\* directory and one inside it
CallerDirs == { <<"/","d","a","t","a","/","o","u","t">>, <<"/","t","m","p","/","w","o","r","k","d","i","r">> }

\* DataAppAnalyzer.extract_zip called with extract_to by a caller that uses
\* the module as a library: a target that is a directory is removed with
\* all it holds, the target is created, then the archive is opened and
\* extracted, which raises for an archive that cannot be read
CallExtractZip ==
    /\ proc.pc = "start"
    /\ \E extract_to \in CallerDirs :
        /\ fs_calls' = fs_calls
               \o (IF extract_to \in temp_dirs
                   THEN <<[op |-> "rmtree", path |-> extract_to]>>
                   ELSE <<>>)
               \o <<[op |-> "makedirs", path |-> extract_to]>>
        /\ temp_dirs' = temp_dirs \cup {extract_to}
        /\ returned' = [method |-> "extract_zip",
                        value |-> IF zip_file.readable THEN extract_to
                                  ELSE <<>>]
    /\ proc' = [proc EXCEPT !.pc = "called"]
    /\ UNCHANGED <<tree, analyzer, zip_file, walk, frame, gen_vars>>

\* a run of main, or a caller's extract_zip into a directory of its choice
NextDirs == NextMain \/ CallExtractZip

\* the archives of the runs
DirsPool ==
    {f \in AnalysisPool :
        f.path \in { <<"p","a","c","k","a","g","e",".","j","s","o","n">>, <<"s","r","c","/","A","p","p",".","t","s","x">>, <<"m","a","i","n",".","p","y">> }}

\* before the run: any of the caller's directories may exist already
InitDirs ==
    /\ tree \in SubsetsUpTo(DirsPool, MaxFiles)
    /\ walk \in WalkOrders(tree)
    /\ zip_file \in {[readable |-> TRUE], [readable |-> FALSE]}
    /\ analyzer = DataAppAnalyzer_init
    /\ returned = [method |-> "None", value |-> "None"]
    /\ frame = NoFrame
    /\ temp_dirs \in SUBSET CallerDirs
    /\ fs_calls = <<>>
    /\ \E url \in { <<>>, <<"h","t","t","p","s",":","/","/","a","p","p",".","r","a","p","i","d","c","a","n","v","a","s",".","a","i","/","a","p","p","s","/","D","e","m","o","/","A","c","m","e","?","a","u","t","o","L","a","u","n","c","h","=","t","r","u","e">> } :
           proc = [pc |-> "start", app_url |-> url, tenant_name |-> <<>>,
                   description |-> <<"T","e","s","t"," ","a","l","l"," ","t","a","b","s"," ","a","n","d"," ","v","e","r","i","f","y"," ","n","o"," ","e","r","r","o","r","s">>,
                   extract_path |-> <<>>, exit |-> "None"]
    /\ NoComposer

SpecDirs == InitDirs /\ [][NextDirs]_vars

\* ------------------------------------- platform configs that lack a part

\* the dict d with no entry for key
without(d, key) == [k \in DOMAIN d \ {key} |-> d[k]]

\* a platform_config.json that holds what the compiled default holds, except
\* that one group is absent, or one field of one group, or one field of the
\* react or streamlit part of app_launch
ConfigsLackingOnePart ==
    LET D == _DEFAULT_PLATFORM_CONFIG
    IN  {without(D, group) : group \in DOMAIN D}
        \cup UNION {{[D EXCEPT ![group] = without(D[group], field)] :
                         field \in DOMAIN D[group]} : group \in DOMAIN D}
        \cup UNION {{[D EXCEPT !.app_launch[family] =
                                   without(D.app_launch[family], field)] :
                         field \in DOMAIN D.app_launch[family]} :
                    family \in DOMAIN D.app_launch}

\* a composer that asks for every element, constructed with no
\* platform_config, for a chat application or a tabbed one
InitConfig ==
    /\ NoAnalysis
    /\ \E a_type \in AppTypes, a_url \in AppUrls :
           LET elements ==
                 <<"O","V","E","R","V","I","E","W">> :> << <<"F","i","l","t","e","r"," ","b","u","t","t","o","n">>, <<"d","r","o","p","d","o","w","n">>, <<"C","a","r","o","u","s","e","l"," ","n","e","x","t"," ","b","u","t","t","o","n">> >>
           IN  \/ /\ TestStepGenerator_init(a_type, a_url, <<" ","A","c","m","e"," ">>,
                         <<"T","e","s","t"," ","a","l","l"," ","t","a","b","s"," ","a","n","d"," ","v","e","r","i","f","y"," ","n","o"," ","e","r","r","o","r","s">>, elements,
                         UI_TYPE_CHAT,
                         ChatGraph([sidebar |-> << <<"N","e","w"," ","c","h","a","t">>, <<"C","H","A","T","S">> >>,
                                    main |-> << <<"S","e","n","d"," ","m","e","s","s","a","g","e">> >>]),
                         <<>>)
                  /\ nav_items = <<>>
               \/ /\ TestStepGenerator_init(a_type, a_url, <<" ","A","c","m","e"," ">>,
                         <<"T","e","s","t"," ","a","l","l"," ","t","a","b","s"," ","a","n","d"," ","v","e","r","i","f","y"," ","n","o"," ","e","r","r","o","r","s">>, elements,
                         UI_TYPE_TABBED,
                         TabbedGraph(<< <<"o","v","e","r","v","i","e","w">>, <<"a","s","k","a","i">> >>, elements),
                         <<>>)
                  /\ nav_items = << <<"o","v","e","r","v","i","e","w">>, <<"a","s","k","a","i">> >>

\* TestStepGenerator.__init__ once more: after the first composer has
\* generated, the caller constructs another with the same arguments and a
\* platform_config that lacks one part; calls goes on recording
ConstructWithConfig ==
    /\ Len(calls) = 1
    /\ steps # <<>>
    /\ config' \in ConfigsLackingOnePart
    /\ steps' = <<>>
    /\ emitted_by' = <<>>
    /\ UNCHANGED <<app_type, app_url, tenant_name, description, tab_elements,
                   ui_type, ui_graph, comprehensive_mode, calls, nav_items,
                   an_vars>>

NextConfig == Generate \/ ConstructWithConfig

SpecConfig == InitConfig /\ [][NextConfig]_vars

\* --------------------------------------------------- files that fail

\* the files of the archives whose bytes are no UTF-8 text: open(...).read()
\* raises for them in every method that reads them
UndecodablePaths ==
    { <<"c","l","i","e","n","t","/","p","a","c","k","a","g","e",".","j","s","o","n">>, <<"c","l","i","e","n","t","/","v","i","t","e",".","c","o","n","f","i","g",".","j","s">>, <<"s","r","c","/","c","o","n","s","t","a","n","t","s",".","t","s">>, <<"s","r","c","/","A","p","p",".","t","s","x">>,
      <<"s","r","c","/","p","a","g","e","s","/","O","v","e","r","v","i","e","w","/","O","v","e","r","v","i","e","w",".","t","s","x">>, <<"s","r","c","/","C","h","a","t",".","t","s","x">>, <<"s","r","c","/","B","r","o","k","e","n",".","t","s","x">> }

\* the files of AnalysisPool, some of them undecodable, and a manifest that
\* holds two JSON documents, for which json.load raises
FailurePool ==
    {[f EXCEPT !.readable = f.path \notin UndecodablePaths] : f \in AnalysisPool}
    \cup {[path |-> <<"s","e","r","v","e","r","/","p","a","c","k","a","g","e",".","j","s","o","n">>, readable |-> TRUE,
           content |-> {"pkg_alpha", "pkg_beta"}]}

\* a new DataAppAnalyzer for a readable archive of at most MaxFiles such files
InitFailures ==
    /\ tree \in SubsetsUpTo(FailurePool, MaxFiles)
    /\ walk \in WalkOrders(tree)
    /\ analyzer = DataAppAnalyzer_init
    /\ returned = [method |-> "None", value |-> "None"]
    /\ zip_file = [readable |-> TRUE]
    /\ frame = NoFrame
    /\ temp_dirs = {}
    /\ fs_calls = <<>>
    /\ proc = NoMain
    /\ NoComposer

SpecFailures == InitFailures /\ [][NextAnalyze]_vars

\* ------------------------------------------- the elements of one file

\* the most lines a page component holds
MaxLines == 3

\* lines of page components
ElementLines ==
    {"comp_overview", "comp_ask_ai", "carousel", "queue_panel", "edit_mode",
     "view_only", "save_reset", "finalize", "changeover_modal", "filter_modal",
     "mo_details", "gantt", "select"}

\* a page component of at most MaxLines lines, which can be read or not
InitElements ==
    /\ \E content \in SubsetsUpTo(ElementLines, MaxLines), readable \in BOOLEAN :
           tree = {[path |-> <<"s","r","c","/","p","a","g","e","s","/","S","c","h","e","d","u","l","e","/","i","n","d","e","x",".","t","s","x">>, readable |-> readable,
                    content |-> content]}
    /\ walk \in WalkOrders(tree)
    /\ analyzer = DataAppAnalyzer_init
    /\ returned = [method |-> "None", value |-> "None"]
    /\ zip_file = [readable |-> TRUE]
    /\ frame = [NoFrame EXCEPT !.extract_path = ExtractPath]
    /\ temp_dirs = {ExtractPath}
    /\ fs_calls = <<[op |-> "mkdtemp", path |-> ExtractPath]>>
    /\ proc = NoMain
    /\ NoComposer

\* DataAppAnalyzer._detect_elements_in_file called on the file
DetectElementsInFile ==
    /\ returned.method = "None"
    /\ returned' = [method |-> "_detect_elements_in_file",
                    value |-> _detect_elements_in_file(walk[1])]
    /\ UNCHANGED <<tree, analyzer, zip_file, walk, frame, temp_dirs, fs_calls,
                   proc, gen_vars>>

SpecElements == InitElements /\ [][DetectElementsInFile]_vars

\* ------------------------------------------- the calls, as the lists record

\* the index in self.steps of the first and of the last step call k appended
CallFirst(k) == calls[k].steps_before + 1
CallLast(k) == IF k < Len(calls) THEN calls[k + 1].steps_before ELSE Len(steps)

\* the indices of the steps call k appended
CallSteps(k) == CallFirst(k)..CallLast(k)

\* the indices of the steps that the method appended during call k
StepsOf(k, method) == {i \in CallSteps(k) : emitted_by[i] = method}

\* the phase a method of the composer belongs to
PhaseOf(method) ==
    CASE method = "add_login_steps" -> 1
      [] method = "add_tenant_switching_steps" -> 2
      [] method = "add_app_launch_steps" -> 3
      [] method \in {"add_chat_ui_steps", "add_navigation_steps", "add_ask_ai_steps"} -> 4
      [] method = "add_final_verification" -> 5

\* the navigation items call k worked on
NavOf(k) == generate_nav(calls[k].navigation_items)

\* the indices of the tab clicks of call k, and the label of a click
TabClicks(k) ==
    {i \in StepsOf(k, "add_navigation_steps") :
        /\ str_startswith(steps[i], <<"C","l","i","c","k"," ","o","n"," ">>)
        /\ str_endswith(steps[i], <<" ","w","i","t","h"," ","A","I">>)
        /\ Len(steps[i]) >= 17}
ClickLabel(i) == SubSeq(steps[i], 10, Len(steps[i]) - 8)

\* the texts an ask-ai label is looked for as
AskAiLabels == { <<"a","s","k"," ","a","i">>, <<"a","s","k","a","i">>, <<"a","s","k","-","a","i">> }

\* ------------------------------------------------------------------ C1
\* C1: among the steps one generate call appends, no step of an earlier
\* phase comes after a step of a later phase (login, tenant switch, launch,
\* interaction, final verification); the launch phase starts with the Open
\* step of the application URL and the login, launch, interaction and final
\* phases are never empty.
C1_PhaseOrder ==
    \A k \in 1..Len(calls) :
        /\ \A i \in CallFirst(k)..(CallLast(k) - 1) :
               PhaseOf(emitted_by[i]) <= PhaseOf(emitted_by[i + 1])
        /\ \A p \in {1, 3, 4, 5} : \E i \in CallSteps(k) : PhaseOf(emitted_by[i]) = p
        /\ \A i \in StepsOf(k, "add_app_launch_steps") :
               (i = CallFirst(k) \/ emitted_by[i - 1] # "add_app_launch_steps")
                   => steps[i] = <<"O","p","e","n"," ">> \o app_url

\* a fresh composer has generated a tenant switch, tab clicks and an Ask AI
\* round trip
C1_Witness ==
    /\ Len(calls) = 1
    /\ StepsOf(1, "add_tenant_switching_steps") # {}
    /\ TabClicks(1) # {}
    /\ StepsOf(1, "add_ask_ai_steps") # {}

\* ------------------------------------------------------------------ C2
\* C2: two generate calls of a composer with the same argument return the
\* same string.
C2_SameResultEveryCall ==
    \A i, j \in 1..Len(calls) :
        calls[i].navigation_items = calls[j].navigation_items
            => calls[i].returned = calls[j].returned

\* ------------------------------------------------------------------ C3
\* C3: every generate call appends the verify step of add_final_verification
\* exactly once, and it is the last step of the list the call leaves.
C3_FinalVerificationOnce ==
    \A k \in 1..Len(calls) :
        /\ StepsOf(k, "add_final_verification") = {CallLast(k)}
        /\ steps[CallLast(k)] = _verify_step

\* calls in the tabbed path with no navigation item
C3_Witness ==
    /\ Len(calls) = 2
    /\ ~generate_is_chat
    /\ NavOf(2) = <<>>
    /\ steps[Len(steps)] = _verify_step

\* ------------------------------------------------------------------ C4
\* C4: the step after the configured login steps is the post-login wait;
\* with a tenant name the configured tenant-switch steps follow it, holding
\* the trimmed tenant name and the search-field label, and then the Open
\* step; with no tenant name no tenant-switch step is emitted and the Open
\* step follows the wait directly.
C4_TenantSwitch ==
    \A k \in 1..Len(calls) :
        LET login_cfg == dict_get(config, "login", _DEFAULT_PLATFORM_CONFIG.login)
            post == CallFirst(k)
                    + Len(dict_get(login_cfg, "steps", _DEFAULT_PLATFORM_CONFIG.login.steps))
            tenant_cfg == dict_get(config, "tenant_switching",
                                   _DEFAULT_PLATFORM_CONFIG.tenant_switching)
            templates == dict_get(tenant_cfg, "steps",
                                  _DEFAULT_PLATFORM_CONFIG.tenant_switching.steps)
            label == dict_get(tenant_cfg, "tenant_search_input_label",
                              <<"T","y","p","e"," ","t","o"," ","s","e","a","r","c","h"," ","w","i","t","h"," ","A","I">>)
            fields == ("{tenant_search_term}" :> str_strip(tenant_name))
                      @@ ("{tenant_search_input_label}" :> label)
        IN  /\ emitted_by[post] = "add_login_steps"
            /\ str_startswith(steps[post], <<"W","a","i","t"," ">>)
            /\ IF tenant_name # <<>>
               THEN /\ StepsOf(k, "add_tenant_switching_steps")
                           = (post + 1)..(post + Len(templates))
                    /\ \A i \in 1..Len(templates) :
                           steps[post + i] = str_format(templates[i], fields)
                    /\ steps[post + Len(templates) + 1] = <<"O","p","e","n"," ">> \o app_url
               ELSE /\ StepsOf(k, "add_tenant_switching_steps") = {}
                    /\ steps[post + 1] = <<"O","p","e","n"," ">> \o app_url

\* a call of a composer whose tenant name has blanks around it
C4_Witness ==
    /\ Len(calls) >= 1
    /\ tenant_name # <<>>
    /\ str_strip(tenant_name) # tenant_name
    /\ StepsOf(1, "add_tenant_switching_steps") # {}

\* ------------------------------------------------------------------ C5
\* the files detect_ui_type reads
ScannedFiles == {f \in tree : is_script_file(f.path) /\ f.readable}

\* the distinct conversational and tabbed signal kinds matched in the tree
ChatKinds ==
    UNION {{scan_content(f.content).chat[i] : i \in 1..Len(scan_content(f.content).chat)} :
           f \in ScannedFiles}
TabbedKinds ==
    UNION {{scan_content(f.content).tabbed[i] : i \in 1..Len(scan_content(f.content).tabbed)} :
           f \in ScannedFiles}

\* C5: detect_ui_type returns, and stores, chat if c >= 2 and t <= 1, else
\* tabbed if t >= 1, else chat if c >= 1, else tabbed, for the numbers c and
\* t of distinct conversational and tabbed signal kinds matched in the tree.
C5_UiTypeRule ==
    returned.method = "detect_ui_type" =>
        LET c == Cardinality(ChatKinds)
            t == Cardinality(TabbedKinds)
        IN  /\ returned.value = (IF c >= 2 /\ t <= 1 THEN UI_TYPE_CHAT
                                 ELSE IF t >= 1 THEN UI_TYPE_TABBED
                                 ELSE IF c >= 1 THEN UI_TYPE_CHAT
                                 ELSE UI_TYPE_TABBED)
            /\ returned.value \in {UI_TYPE_CHAT, UI_TYPE_TABBED}
            /\ analyzer.ui_type = returned.value

\* the one tabbed kind of the tree is matched in two files, and the result
\* is chat
C5_Witness ==
    /\ returned = [method |-> "detect_ui_type", value |-> UI_TYPE_CHAT]
    /\ Cardinality(TabbedKinds) = 1
    /\ \E f, g \in ScannedFiles :
           /\ f # g
           /\ scan_content(f.content).tabbed # <<>>
           /\ scan_content(g.content).tabbed # <<>>

\* ------------------------------------------------------------------ C6
\* the number of component indicators present among the paths of the tree
ReactIndicators ==
    LET present(names) == \E f \in tree : \E n \in names : str_contains(f.path, n)
    IN  Cardinality({names \in {{ <<"p","a","c","k","a","g","e",".","j","s","o","n">> }, { <<"v","i","t","e",".","c","o","n","f","i","g">> },
                                { <<"A","p","p",".","t","s","x">>, <<"A","p","p",".","j","s","x">> }, { <<"t","s","c","o","n","f","i","g",".","j","s","o","n">> }} :
                        present(names)})

\* evidence of a script dashboard is present among the paths of the tree
StreamlitEvidence ==
    \E f \in tree : \E n \in { <<"r","e","q","u","i","r","e","m","e","n","t","s",".","t","x","t">>, <<"m","a","i","n",".","p","y">>, <<"a","p","p",".","p","y">>, <<".","s","t","r","e","a","m","l","i","t">> } :
        str_contains(f.path, n)

\* C6: detect_app_type returns, and stores, react exactly when at least 2 of
\* the 4 component indicators are present, and streamlit in every other case.
C6_AppTypeRule ==
    returned.method = "detect_app_type" =>
        /\ returned.value = (IF ReactIndicators >= 2 THEN "react" ELSE "streamlit")
        /\ analyzer.app_type = returned.value

\* react is returned for a tree that holds evidence of a script dashboard
C6_Witness ==
    /\ returned = [method |-> "detect_app_type", value |-> "react"]
    /\ StreamlitEvidence
    /\ ReactIndicators = 2

\* ------------------------------------------------------------------ C7
\* the canonical order of two tab labels: OVERVIEW, SCHEDULE, ASK AI, then
\* every other label in ascending order
CanonicalBefore(x, y) ==
    LET head == << <<"O","V","E","R","V","I","E","W">>, <<"S","C","H","E","D","U","L","E">>, <<"A","S","K"," ","A","I">> >>
        pos(z) == IF \E p \in 1..3 : head[p] = z THEN CHOOSE p \in 1..3 : head[p] = z ELSE 4
    IN  \/ pos(x) < pos(y)
        \/ pos(x) = 4 /\ pos(y) = 4 /\ str_less(x, y)

\* C7: the tab clicks of a generate call are in canonical order, whatever
\* the order of the navigation items, and every navigation item that is not
\* blank is clicked.
C7_CanonicalTabOrder ==
    \A k \in 1..Len(calls) :
        /\ \A i, j \in TabClicks(k) :
               i < j => CanonicalBefore(ClickLabel(i), ClickLabel(j))
        /\ \A n \in 1..Len(NavOf(k)) :
               nav_item_clean(NavOf(k)[n]) # <<>>
                   => \E i \in TabClicks(k) : ClickLabel(i) = nav_item_normalized(NavOf(k)[n])

\* billing, schedule and overview, given in this order, are visited as
\* OVERVIEW, SCHEDULE, BILLING
C7_Witness ==
    /\ Len(calls) = 1
    /\ nav_items = << <<"b","i","l","l","i","n","g">>, <<"/","S","c","h","e","d","u","l","e">>, <<"o","v","e","r","v","i","e","w">> >>
    /\ \E i, j, l \in TabClicks(1) :
           /\ i < j /\ j < l
           /\ ClickLabel(i) = <<"O","V","E","R","V","I","E","W">>
           /\ ClickLabel(j) = <<"S","C","H","E","D","U","L","E">>
           /\ ClickLabel(l) = <<"B","I","L","L","I","N","G">>

C9_NoRoundTripWithoutLabel ==
    \A k \in 1..Len(calls) :
        (/\ ~generate_is_chat
         /\ \A n \in 1..Len(NavOf(k)) :
                nav_item_normalized(NavOf(k)[n]) \notin { <<"A","S","K"," ","A","I">>, <<"A","S","K","A","I">> })
            => /\ StepsOf(k, "add_ask_ai_steps") = {}
               /\ \A i \in CallSteps(k) : steps[i] # <<"E","n","t","e","r"," ","h","e","l","l","o"," ","i","n"," ","A","s","k"," ","A","I"," ","w","i","t","h"," ","A","I">>

\* ----------------------------------------------------------------- C10
\* the five steps of the Ask AI round trip are the steps a..a+4
IsRoundTrip(a) ==
    LET wt == dict_get(config, "wait_times", _DEFAULT_PLATFORM_CONFIG.wait_times)
        ask_sec == IF app_type = "react" THEN dict_get(wt, "ask_ai_react_sec", 60)
                   ELSE dict_get(wt, "ask_ai_streamlit_sec", 100)
    IN  /\ steps[a] = <<"E","n","t","e","r"," ","h","e","l","l","o"," ","i","n"," ","A","s","k"," ","A","I"," ","w","i","t","h"," ","A","I">>
        /\ steps[a + 1] = wait_step(dict_get(wt, "chat_entry_sec", 5))
        /\ steps[a + 2] = <<"C","l","i","c","k"," ","o","n"," ","S","e","n","d"," ","m","e","s","s","a","g","e"," ","w","i","t","h"," ","A","I">>
        /\ steps[a + 3] = wait_step(ask_sec)
        /\ steps[a + 4] = _verify_step

\* the steps emitted before add_ask_ai_steps ran in call k
EmittedBeforeAskAi(k) ==
    SubSeq(steps, 1, CallLast(k) - 1 - Cardinality(StepsOf(k, "add_ask_ai_steps")))

\* the round trip of call k is there, once, after the tabbed interaction,
\* exactly when scan holds, and never in the chat path
RoundTripIff(k, scan) ==
    LET ask == StepsOf(k, "add_ask_ai_steps")
    IN  /\ ask # {} <=> (~generate_is_chat /\ scan)
        /\ ask # {} => /\ ask = (CallLast(k) - 5)..(CallLast(k) - 1)
                       /\ IsRoundTrip(CallLast(k) - 5)
                       /\ emitted_by[CallLast(k) - 6] = "add_navigation_steps"

ProbeTags ==
    { << <<"I","f","(","E","d","i","t"," ","M","o","d","e"," ","v","i","s","i","b","l","e",")">>, <<"E","d","i","t"," ","M","o","d","e"," ","b","u","t","t","o","n">> >>,
      << <<"I","f","(","V","i","e","w"," ","O","n","l","y"," ","M","o","d","e"," ","v","i","s","i","b","l","e",")">>, <<"V","i","e","w"," ","O","n","l","y"," ","M","o","d","e"," ","b","u","t","t","o","n">> >>,
      << <<"I","f","(","F","i","l","t","e","r"," ","v","i","s","i","b","l","e",")">>, <<"F","i","l","t","e","r"," ","b","u","t","t","o","n">> >>,
      << <<"I","f","(","C","h","a","n","g","e","o","v","e","r","s"," ","v","i","s","i","b","l","e",")">>, <<"C","h","a","n","g","e","o","v","e","r","s"," ","s","t","a","t"," ","b","o","x">> >>,
      << <<"I","f","(","S","a","v","e"," ","v","i","s","i","b","l","e",")">>, <<"S","a","v","e"," ","b","u","t","t","o","n">> >>,
      << <<"I","f","(","R","e","s","e","t"," ","v","i","s","i","b","l","e",")">>, <<"R","e","s","e","t"," ","b","u","t","t","o","n">> >>,
      << <<"I","f","(","F","i","n","a","l","i","z","e"," ","v","i","s","i","b","l","e",")">>, <<"F","i","n","a","l","i","z","e"," ","b","u","t","t","o","n">> >>,
      << <<"I","f","(","F","i","l","t","e","r"," ","m","o","d","a","l"," ","v","i","s","i","b","l","e",")">>, <<"F","i","l","t","e","r"," ","m","o","d","a","l">> >>,
      << <<"I","f","(","C","h","a","n","g","e","o","v","e","r"," ","m","o","d","a","l"," ","v","i","s","i","b","l","e",")">>, <<"C","h","a","n","g","e","o","v","e","r"," ","m","o","d","a","l">> >>,
      << <<"I","f","(","M","O"," ","D","e","t","a","i","l","s"," ","P","a","n","e","l"," ","v","i","s","i","b","l","e",")">>, <<"M","O"," ","D","e","t","a","i","l","s"," ","P","a","n","e","l">> >>,
      << <<"I","f","(","d","r","o","p","d","o","w","n"," ","v","i","s","i","b","l","e",")">>, <<"d","r","o","p","d","o","w","n">> >>,
      << <<"I","f","(","d","r","o","p","d","o","w","n"," ","o","p","t","i","o","n"," ","v","i","s","i","b","l","e",")">>, <<"d","r","o","p","d","o","w","n">> >>,
      << <<"I","f","(","a","n","y"," ","s","c","h","e","d","u","l","e","d"," ","M","O"," ","b","l","o","c","k"," ","v","i","s","i","b","l","e"," ","i","n"," ","G","a","n","t","t"," ","c","h","a","r","t",")">>, <<"s","c","h","e","d","u","l","e","d"," ","M","O"," ","b","l","o","c","k">> >>,
      << <<"I","f","(","Q","u","e","u","e"," ","P","a","n","e","l"," ","v","i","s","i","b","l","e",")">>, <<"Q","u","e","u","e"," ","P","a","n","e","l">> >>,
      << <<"I","f","(","C","a","r","o","u","s","e","l"," ","n","e","x","t"," ","v","i","s","i","b","l","e",")">>, <<"C","a","r","o","u","s","e","l"," ","n","e","x","t"," ","b","u","t","t","o","n">> >>,
      << <<"I","f","(","C","a","r","o","u","s","e","l"," ","p","r","e","v","i","o","u","s"," ","v","i","s","i","b","l","e",")">>, <<"C","a","r","o","u","s","e","l"," ","p","r","e","v","i","o","u","s"," ","b","u","t","t","o","n">> >> }

\* the label of the tab that step i of call k belongs to: that of the last
\* tab click at or before it
TabOfStep(k, i) ==
    LET before == {j \in TabClicks(k) : j <= i}
    IN  ClickLabel(CHOOSE j \in before : \A l \in before : l <= j)

\* the inventory of a tab
InventoryOf(label) ==
    LET tags == dict_get(tab_elements, label, <<>>)
    IN  {tags[n] : n \in 1..Len(tags)}

\* C11: every element probe emitted for a tab is about an element tag that
\* is in the inventory of that tab.
C11_ProbesOnlyForInventory ==
    \A k \in 1..Len(calls) :
        \A i \in StepsOf(k, "add_navigation_steps") :
            \A p \in ProbeTags :
                str_startswith(steps[i], p[1]) => p[2] \in InventoryOf(TabOfStep(k, i))

\* ----------------------------------------------------------------- C12
\* the keywords of comprehensive mode
ModeKeywords ==
    { <<"d","r","o","p","d","o","w","n">>, <<"b","u","t","t","o","n">>, <<"m","o","d","a","l">>, <<"c","l","i","c","k","a","b","l","e">>, <<"e","n","t","r","y"," ","p","o","i","n","t">>, <<"i","n","t","e","r","a","c","t","i","v","e">>,
      <<"e","l","e","m","e","n","t">>, <<"c","o","m","p","r","e","h","e","n","s","i","v","e">>, <<"a","l","l">>, <<"e","a","c","h">>, <<"e","v","e","r","y">> }

\* C12: before and after every generate call, comprehensive mode is true
\* exactly when the description, in lower case, contains a keyword; it is
\* false for a missing or empty description.
C12_ModeFromDescription ==
    /\ comprehensive_mode <=> \E kw \in ModeKeywords : str_contains(str_lower(description), kw)
    /\ description = <<>> => ~comprehensive_mode

\* a composer whose description holds keywords in capitals only has
\* generated scroll probes
C12_Witness ==
    /\ Len(calls) >= 1
    /\ comprehensive_mode
    /\ \A kw \in ModeKeywords : ~str_contains(description, kw)
    /\ \E i \in StepsOf(1, "add_navigation_steps") : steps[i] = <<"S","c","r","o","l","l"," ","d","o","w","n"," ","w","i","t","h"," ","A","I">>

\* ----------------------------------------------------------------- C13
\* step i starts a triple of the text, a wait of the seconds and the verify
\* step
IsTriple(i, text, sec) ==
    /\ steps[i] = text
    /\ steps[i + 1] = wait_step(sec)
    /\ steps[i + 2] = _verify_step

\* C13: in comprehensive mode every tab click starts a click, wait, verify
\* triple that the scroll-down and the scroll-up triple follow at once, and
\* everything up to the next tab click is element probes of that tab;
\* otherwise every tab contributes its click, wait and verify only, and no
\* scroll and no conditional step is emitted.
C13_ProbesFollowTheirTab ==
    \A k \in 1..Len(calls) :
        LET nav == StepsOf(k, "add_navigation_steps")
            wt == dict_get(config, "wait_times", _DEFAULT_PLATFORM_CONFIG.wait_times)
            scroll_sec == dict_get(wt, "comprehensive_scroll_sec", 5)
            tab_sec == IF app_type = "react" THEN dict_get(wt, "tab_click_react_sec", 30)
                       ELSE dict_get(wt, "tab_click_streamlit_sec", 20)
            NextClickOrEnd(i) ==
                LET later == {j \in TabClicks(k) : j > i}
                    last == CHOOSE j \in nav : \A l \in nav : l <= j
                IN  IF later = {} THEN last + 1
                    ELSE CHOOSE j \in later : \A l \in later : j <= l
        IN  \A i \in TabClicks(k) :
                /\ IsTriple(i, steps[i], tab_sec)
                /\ IF comprehensive_mode
                   THEN /\ NextClickOrEnd(i) >= i + 9
                        /\ IsTriple(i + 3, <<"S","c","r","o","l","l"," ","d","o","w","n"," ","w","i","t","h"," ","A","I">>, scroll_sec)
                        /\ IsTriple(i + 6, <<"S","c","r","o","l","l"," ","u","p"," ","w","i","t","h"," ","A","I">>, scroll_sec)
                        /\ \A j \in (i + 9)..(NextClickOrEnd(i) - 1) :
                               (j - i) % 3 = 0 => /\ str_startswith(steps[j], <<"I","f","(">>)
                                                  /\ str_startswith(steps[j + 1], <<"W","a","i","t"," ">>)
                                                  /\ steps[j + 2] = _verify_step
                   ELSE /\ NextClickOrEnd(i) = i + 3
                        /\ \A j \in nav : /\ ~str_startswith(steps[j], <<"S","c","r","o","l","l">>)
                                          /\ ~str_startswith(steps[j], <<"I","f","(">>)

\* two tabs were visited in comprehensive mode, the second with element
\* probes
C13_Witness ==
    /\ Len(calls) >= 1
    /\ comprehensive_mode
    /\ Cardinality(TabClicks(1)) = 2
    /\ \E i \in StepsOf(1, "add_navigation_steps") :
           /\ str_startswith(steps[i], <<"I","f","(","Q","u","e","u","e"," ","P","a","n","e","l"," ","v","i","s","i","b","l","e",")">>)
           /\ TabOfStep(1, i) = <<"S","C","H","E","D","U","L","E">>

\* ----------------------------------------------------------------- C14
\* the number of steps add_chat_ui_steps appended in call k that are the text
ChatStepCount(k, text) ==
    Cardinality({i \in StepsOf(k, "add_chat_ui_steps") : steps[i] = text})

\* C14: in the chat path CHATS in the sidebar gets the one conditional click
\* on the first chat item and no direct click, best practices link in main
\* gets one conditional click and no direct click, Send message is clicked
\* once, two steps after the one step that enters the filler text, and
\* every other label of the sidebar and of main gets one direct click; no
\* other click is emitted.
C14_ChatEntrySteps ==
    \A k \in 1..Len(calls) :
        generate_is_chat =>
            LET sidebar == ui_graph.entry_points.sidebar
                main == ui_graph.entry_points.main
                labels == {sidebar[n] : n \in 1..Len(sidebar)} \cup {main[n] : n \in 1..Len(main)}
                direct(label) == ChatStepCount(k, <<"C","l","i","c","k"," ","o","n"," ">> \o label \o <<" ","w","i","t","h"," ","A","I">>)
                chats == ChatStepCount(k,
                    <<"I","f","(","c","h","a","t"," ","i","t","e","m"," ","v","i","s","i","b","l","e"," ","i","n"," ","C","H","A","T","S",")"," ","t","h","e","n"," ","C","l","i","c","k"," ","o","n"," ","f","i","r","s","t"," ","c","h","a","t"," ","i","t","e","m"," ","i","n"," ","C","H","A","T","S"," ","w","i","t","h"," ","A","I">>)
                best == ChatStepCount(k,
                    <<"I","f","(","b","e","s","t"," ","p","r","a","c","t","i","c","e","s"," ","l","i","n","k"," ","v","i","s","i","b","l","e",")"," ","t","h","e","n"," ","C","l","i","c","k"," ","o","n"," ","b","e","s","t"," ","p","r","a","c","t","i","c","e","s"," ","l","i","n","k"," ","w","i","t","h"," ","A","I">>)
                others == labels \ { <<"C","H","A","T","S">>, <<"b","e","s","t"," ","p","r","a","c","t","i","c","e","s"," ","l","i","n","k">>, <<"S","e","n","d"," ","m","e","s","s","a","g","e">> }
                chat == StepsOf(k, "add_chat_ui_steps")
            IN  /\ direct(<<"C","H","A","T","S">>) = 0
                /\ chats = (IF <<"C","H","A","T","S">> \in labels THEN 1 ELSE 0)
                /\ direct(<<"b","e","s","t"," ","p","r","a","c","t","i","c","e","s"," ","l","i","n","k">>) = 0
                /\ best = (IF <<"b","e","s","t"," ","p","r","a","c","t","i","c","e","s"," ","l","i","n","k">> \in labels THEN 1 ELSE 0)
                /\ direct(<<"S","e","n","d"," ","m","e","s","s","a","g","e">>) = 1
                /\ ChatStepCount(k, <<"E","n","t","e","r"," ","h","e","l","l","o"," ","i","n"," ","c","h","a","t"," ","i","n","p","u","t"," ","w","i","t","h"," ","A","I">>) = 1
                /\ \A i \in chat : steps[i] = <<"C","l","i","c","k"," ","o","n"," ","S","e","n","d"," ","m","e","s","s","a","g","e"," ","w","i","t","h"," ","A","I">>
                                       => steps[i - 2] = <<"E","n","t","e","r"," ","h","e","l","l","o"," ","i","n"," ","c","h","a","t"," ","i","n","p","u","t"," ","w","i","t","h"," ","A","I">>
                /\ \A label \in others : direct(label) = 1
                /\ Cardinality({i \in chat : str_startswith(steps[i], <<"C","l","i","c","k"," ","o","n"," ">>)})
                       = Cardinality(others) + 1

\* New chat and CHATS in the sidebar and an empty main
C14_Witness ==
    /\ Len(calls) >= 1
    /\ generate_is_chat
    /\ ui_graph.entry_points = [sidebar |-> << <<"N","e","w"," ","c","h","a","t">>, <<"C","H","A","T","S">> >>, main |-> <<>>]
    /\ ChatStepCount(1, <<"C","l","i","c","k"," ","o","n"," ","S","e","n","d"," ","m","e","s","s","a","g","e"," ","w","i","t","h"," ","A","I">>) = 1

\* ---------------------------------------------------------------- C15

\* the indices at which a list holds x
Occurrences(list, x) == {i \in 1..Len(list) : list[i] = x}

\* no element of a list occurs twice in it
NoRepeats(list) == \A i, j \in 1..Len(list) : list[i] = list[j] => i = j

\* C15: for every source tree the main bucket extract_chat_entry_points
\* returns holds 'Send message' exactly once, and neither its sidebar bucket
\* nor its main bucket holds a label twice.
C15_EntryPointBuckets ==
    returned.method = "extract_chat_entry_points" =>
        /\ Cardinality(Occurrences(returned.value.main, <<"S","e","n","d"," ","m","e","s","s","a","g","e">>)) = 1
        /\ NoRepeats(returned.value.sidebar)
        /\ NoRepeats(returned.value.main)

\* two files hold the cue of 'New chat' and no file holds the cue of
\* 'Send message'
C15_Witness ==
    /\ returned.method = "extract_chat_entry_points"
    /\ Cardinality({f \in tree : f.readable /\ "new_chat" \in f.content
                                           /\ f.path # <<"s","r","c","/","B","r","o","k","e","n",".","t","s","x">>}) >= 2
    /\ \A f \in tree : "send_message" \notin f.content
    /\ list_contains(returned.value.sidebar, <<"N","e","w"," ","c","h","a","t">>)
    /\ list_contains(returned.value.main, <<"S","e","n","d"," ","m","e","s","s","a","g","e">>)

\* ---------------------------------------------------------------- C16

\* C16: the ui_graph analyze builds and returns is shaped by one paradigm:
\* for ui_type chat its navigation_items and tab_elements are empty and the
\* main bucket of its entry_points is not; for ui_type tabbed_dashboard its
\* entry_points is None and its navigation_items is what extract_navigation
\* returned.
C16_GraphOfOneParadigm ==
    returned.method = "analyze" =>
        LET graph == returned.value.ui_graph
        IN  /\ graph = analyzer.ui_graph
            /\ graph.ui_type = analyzer.ui_type
            /\ graph.ui_type \in {UI_TYPE_CHAT, UI_TYPE_TABBED}
            /\ graph.ui_type = UI_TYPE_CHAT =>
                   /\ graph.navigation_items = <<>>
                   /\ graph.tab_elements = <<>>
                   /\ graph.entry_points.main # <<>>
            /\ graph.ui_type = UI_TYPE_TABBED =>
                   /\ DOMAIN graph.entry_points = {}
                   /\ graph.navigation_items
                          = extract_navigation(walk, analyzer.app_type, analyzer.ui_type)
                   /\ graph.navigation_items = analyzer.navigation_items

\* analyze has returned a chat graph for a tree in which extract_navigation
\* found items
C16_Witness ==
    /\ returned.method = "analyze"
    /\ returned.value.ui_type = UI_TYPE_CHAT
    /\ frame.navigation # <<>>
    /\ returned.value.ui_graph.navigation_items = <<>>

\* ---------------------------------------------------------------- C17

\* the index of the first element of a list that is x
FirstIndex(list, x) == SetMin(Occurrences(list, x))

\* the items extract_navigation found, normalized, in the order it found them
NormalizedFound ==
    LET found == raw_nav_items(walk, analyzer.app_type, analyzer.ui_type)
    IN  [i \in 1..Len(found) |-> normalize_nav_item(found[i])]

\* C17: the list extract_navigation returns holds no two items that are
\* equal when letter case is ignored, and holds its items in the order in
\* which they were first found.
C17_NoCaseInsensitiveRepeats ==
    returned.method = "extract_navigation" =>
        /\ \A i, j \in 1..Len(returned.value) :
               str_lower(returned.value[i]) = str_lower(returned.value[j]) => i = j
        /\ \A i, j \in 1..Len(returned.value) :
               i < j => FirstIndex(NormalizedFound, returned.value[i])
                            < FirstIndex(NormalizedFound, returned.value[j])

\* ---------------------------------------------------------------- C18

\* item is 'askai' or 'ask-ai' in any letter case, with or without
\* surrounding slashes or blanks
IsAskAiVariant(item) ==
    str_lower(str_strip_chars(str_strip(item), {"/"})) \in { <<"a","s","k","a","i">>, <<"a","s","k","-","a","i">> }

\* C18: the list extract_navigation returns holds no empty item and no bare
\* slash, and no found route or label that is an ask-ai variant is in it in
\* its normalized form.
C18_NoReservedItem ==
    returned.method = "extract_navigation" =>
        LET found == raw_nav_items(walk, analyzer.app_type, analyzer.ui_type)
        IN  /\ \A i \in 1..Len(returned.value) :
                   returned.value[i] # <<>> /\ returned.value[i] # <<"/">>
            /\ \A k \in 1..Len(found) :
                   IsAskAiVariant(found[k])
                       => ~list_contains(returned.value, normalize_nav_item(found[k]))

\* ---------------------------------------------------------------- C19

\* the first element of a list of matches; <<>> (None) if there is none
FirstMatch(matches) == IF matches = <<>> THEN <<>> ELSE Head(matches)

\* what the files yield for url_info['dataapp_id'], in the order of the scan
DataappIdMatches ==
    collect(walk, LAMBDA f :
        IF /\ basename(f.path) \in { <<"v","i","t","e",".","c","o","n","f","i","g",".","t","s">>, <<"v","i","t","e",".","c","o","n","f","i","g",".","j","s">> }
           /\ f.readable
           /\ vite_loop(<<f>>, <<>>) # <<>>
        THEN <<vite_loop(<<f>>, <<>>)>> ELSE <<>>)

\* what the files yield for url_info['app_slug']: the manifests, then the
\* constants and config files
AppSlugMatches ==
    collect(walk, LAMBDA f :
        IF package_loop(<<f>>, <<>>) # <<>> THEN <<package_loop(<<f>>, <<>>)>> ELSE <<>>)
    \o collect(walk, LAMBDA f :
           LET info == constants_loop(<<f>>, [app_slug |-> <<>>, tenant_name |-> <<>>])
           IN  IF info.app_slug # <<>> THEN <<info.app_slug>> ELSE <<>>)

\* what the files yield for url_info['tenant_name']
TenantNameMatches ==
    collect(walk, LAMBDA f :
        LET info == constants_loop(<<f>>, [app_slug |-> <<>>, tenant_name |-> <<>>])
        IN  IF info.tenant_name # <<>> THEN <<info.tenant_name>> ELSE <<>>)

\* C19: each of app_slug, tenant_name and dataapp_id that
\* extract_dataapp_url_info returns is the first value the scan recovered
\* for it; no file scanned later replaces it.
C19_FirstMatchWins ==
    returned.method = "extract_dataapp_url_info" =>
        /\ returned.value.dataapp_id = FirstMatch(DataappIdMatches)
        /\ returned.value.app_slug = FirstMatch(AppSlugMatches)
        /\ returned.value.tenant_name = FirstMatch(TenantNameMatches)

\* ---------------------------------------------------------------- C20

\* C20: on every exit path of main the temporary directory that extract_zip
\* created is eventually removed: whenever the directory exists, a later
\* state of the run has it no more.
C20_TempDirEventuallyRemoved ==
    (ExtractPath \in temp_dirs) ~> (ExtractPath \notin temp_dirs)


\* ---------------------------------------------------------------- C21

\* a directory that the program made itself with mkdtemp, under the
\* temporary directory, before the i-th call
OwnDirectory(i) ==
    /\ str_startswith(fs_calls[i].path, TempDir)
    /\ \E j \in 1..(i - 1) : /\ fs_calls[j].op = "mkdtemp"
                             /\ fs_calls[j].path = fs_calls[i].path

\* C21: the only directories that are ever removed are those the program
\* created itself under the temporary directory; a directory that a caller
\* supplied as the target of the extraction is never removed, neither by
\* extract_zip nor by the cleanup of main.
C21_OnlyOwnDirectoriesRemoved ==
    \A i \in 1..Len(fs_calls) : fs_calls[i].op = "rmtree" => OwnDirectory(i)

\* ---------------------------------------------------------------- C22

\* C22: when a group of the platform config is absent, or a field of a group
\* that is present, the composer takes the compiled default of every field it
\* reads there: what the first generate call of such a composer returns is
\* what the composer with the whole default config returned for the same
\* arguments (the text of the verification step and every wait included).
C22_AbsentFieldsTakeDefaults ==
    \A i \in 2..Len(calls) :
        calls[i].steps_before = 0 => calls[i].returned = calls[1].returned

\* ---------------------------------------------------------------- C23

\* reading or parsing the file fails: its bytes cannot be decoded, or it is a
\* manifest that is not one JSON object
Fails(f) ==
    \/ ~f.readable
    \/ /\ basename(f.path) = <<"p","a","c","k","a","g","e",".","j","s","o","n">>
       /\ \/ Cardinality(f.content) # 1
          \/ \E line \in f.content : "json_name" \notin DOMAIN SnippetFinds[line]

\* the file with nothing in it if it fails, else the file
WithoutContent(f) ==
    IF Fails(f) THEN [f EXCEPT !.readable = TRUE, !.content = {}] ELSE f

\* C23: a file that cannot be read or parsed never aborts the analysis and
\* gives no evidence: no exception leaves a method, and the analysis
\* returned is the analysis of the same tree with the failing files empty
\* (paradigm classification, navigation, identity, elements, entry points).
C23_FailingFileGivesNoEvidence ==
    /\ frame.exception = "None"
    /\ returned.method = "analyze" =>
           LET files == [i \in 1..Len(walk) |-> WithoutContent(walk[i])]
               emptied == {WithoutContent(f) : f \in tree}
               a_type == detect_app_type(emptied)
               u_type == detect_ui_type(emptied)
           IN  /\ returned.value.app_type = a_type
               /\ returned.value.ui_type = u_type
               /\ frame.navigation = extract_navigation(files, a_type, u_type)
               /\ returned.value.url_info = extract_dataapp_url_info(files)
               /\ returned.value.tab_elements \in analyze_tab_elements(files, a_type)
               /\ u_type = UI_TYPE_CHAT =>
                      frame.entry_points = extract_chat_entry_points(files)

\* an analysis has returned for a tree with an undecodable file and a manifest
\* that does not parse, and what it found for the identity is not what the
\* files would give if all could be read
C23_Witness ==
    /\ returned.method = "analyze"
    /\ \E f \in tree : ~f.readable
    /\ \E f \in tree : f.readable /\ Fails(f)
    /\ returned.value.url_info
           # extract_dataapp_url_info([i \in 1..Len(walk) |->
                                          [walk[i] EXCEPT !.readable = TRUE]])

\* ---------------------------------------------------------------- C24

\* C24: generate reads its inputs and writes none of them: across every call
\* the ui_graph, the navigation list passed as argument, the tab element
\* inventory and the platform config are what they were, as is every other
\* attribute of the composer; only self.steps changes, by the steps the call
\* appends.
C24_GenerateReadsOnly ==
    [][/\ ui_graph' = ui_graph
       /\ nav_items' = nav_items
       /\ calls'[Len(calls')].navigation_items = nav_items'
       /\ tab_elements' = tab_elements
       /\ config' = config
       /\ <<app_type, app_url, tenant_name, description, ui_type,
            comprehensive_mode>>' =
          <<app_type, app_url, tenant_name, description, ui_type,
            comprehensive_mode>>
       /\ Len(steps') > Len(steps)
       /\ SubSeq(steps', 1, Len(steps)) = steps]_vars

\* generate has been called with a list of navigation items on a tabbed
\* composer that has an inventory of elements and a platform config of its
\* own
C24_Witness ==
    /\ calls # <<>>
    /\ calls[1].navigation_items # <<>>
    /\ ui_type = UI_TYPE_TABBED
    /\ ui_graph.navigation_items # <<>>
    /\ tab_elements # <<>>
    /\ config = PartialConfig

\* ---------------------------------------------------------------- C25

\* the steps add_app_launch_steps appended in the k-th call, in order
LaunchSteps(k) ==
    LET at == StepsOf(k, "add_app_launch_steps")
    IN  [i \in 1..Cardinality(at) |-> steps[SetMin(at) + i - 1]]

DigitChars == {"0", "1", "2", "3", "4", "5", "6", "7", "8", "9"}

\* f"Wait {n}sec" for some number n
IsWaitStep(step) ==
    /\ Len(step) > 8
    /\ SubSeq(step, 1, 5) = <<"W","a","i","t"," ">>
    /\ SubSeq(step, Len(step) - 2, Len(step)) = <<"s","e","c">>
    /\ \A i \in 6..(Len(step) - 3) : step[i] \in DigitChars

\* f"If(text=Launching) then wait {n}sec" for some number n
IsLaunchingWait(step) ==
    LET prefix == <<"I","f","(","t","e","x","t","=","L","a","u","n","c","h","i","n","g",")"," ","t","h","e","n"," ","w","a","i","t"," ">>
    IN  /\ Len(step) > Len(prefix) + 3
        /\ SubSeq(step, 1, Len(prefix)) = prefix
        /\ SubSeq(step, Len(step) - 2, Len(step)) = <<"s","e","c">>
        /\ \A i \in (Len(prefix) + 1)..(Len(step) - 3) : step[i] \in DigitChars

\* use_relaunch_conditional of the streamlit launch, on when it is not given
UseRelaunchConditional ==
    LET launch == IF "app_launch" \in DOMAIN config THEN config.app_launch
                  ELSE _DEFAULT_PLATFORM_CONFIG.app_launch
        streamlit == IF "streamlit" \in DOMAIN launch THEN launch.streamlit
                     ELSE _DEFAULT_PLATFORM_CONFIG.app_launch.streamlit
    IN  "use_relaunch_conditional" \in DOMAIN streamlit
            => streamlit.use_relaunch_conditional

\* C25: the launch phase of every call is 'Open <app_url>', then for react
\* one wait and nothing else (never a conditional step), and for streamlit a
\* wait, then, when use_relaunch_conditional is on, the conditional click on
\* Relaunch and the conditional wait for Launching in that order, then a
\* last wait.
C25_LaunchPhase ==
    \A k \in 1..Len(calls) :
        LET launch == LaunchSteps(k)
            after_open == SubSeq(launch, 2, Len(launch))
        IN  /\ Len(launch) >= 2
            /\ launch[1] = <<"O","p","e","n"," ">> \o app_url
            /\ IsWaitStep(launch[2])
            /\ IsWaitStep(launch[Len(launch)])
            /\ IF app_type = "react" THEN Len(launch) = 2
               ELSE IF UseRelaunchConditional
               THEN /\ Len(launch) = 5
                    /\ launch[3] = <<"I","f","(","t","e","x","t","=","R","e","l","a","u","n","c","h",")"," ","t","h","e","n"," ","C","l","i","c","k"," ","o","n"," ","R","e","l","a","u","n","c","h">>
                    /\ IsLaunchingWait(launch[4])
               ELSE Len(launch) = 3

\* a streamlit launch with the two conditional steps has been emitted
C25_Witness ==
    /\ calls # <<>>
    /\ app_type = "streamlit"
    /\ UseRelaunchConditional
    /\ Len(LaunchSteps(1)) = 5

\* ---------------------------------------------------------------- C26

\* the tags _detect_elements_in_file appends
ElementTags ==
    { <<"E","d","i","t"," ","M","o","d","e"," ","b","u","t","t","o","n">>, <<"V","i","e","w"," ","O","n","l","y"," ","M","o","d","e"," ","b","u","t","t","o","n">>, <<"F","i","l","t","e","r"," ","b","u","t","t","o","n">>, <<"S","a","v","e"," ","b","u","t","t","o","n">>,
      <<"R","e","s","e","t"," ","b","u","t","t","o","n">>, <<"F","i","n","a","l","i","z","e"," ","b","u","t","t","o","n">>, <<"C","h","a","n","g","e","o","v","e","r","s"," ","s","t","a","t"," ","b","o","x">>, <<"F","i","l","t","e","r"," ","m","o","d","a","l">>,
      <<"C","h","a","n","g","e","o","v","e","r"," ","m","o","d","a","l">>, <<"M","O"," ","D","e","t","a","i","l","s"," ","P","a","n","e","l">>, <<"C","a","r","o","u","s","e","l"," ","n","e","x","t"," ","b","u","t","t","o","n">>,
      <<"C","a","r","o","u","s","e","l"," ","p","r","e","v","i","o","u","s"," ","b","u","t","t","o","n">>, <<"G","a","n","t","t"," ","c","h","a","r","t">>, <<"s","c","h","e","d","u","l","e","d"," ","M","O"," ","b","l","o","c","k">>,
      <<"Q","u","e","u","e"," ","P","a","n","e","l">>, <<"d","r","o","p","d","o","w","n">> }

\* the tag is in the list
Tagged(elements, tag) == \E i \in 1..Len(elements) : elements[i] = tag

\* C26: whatever the file holds, _detect_elements_in_file returns tags of its
\* 16 and none of them twice, and the empty list for a file it cannot read;
\* the two carousel tags come together, and so do 'Gantt chart' and
\* 'scheduled MO block'.
C26_ElementTags ==
    returned.method = "_detect_elements_in_file" =>
        LET elements == returned.value
        IN  /\ Cardinality(ElementTags) = 16
            /\ \A i \in 1..Len(elements) : elements[i] \in ElementTags
            /\ \A i, j \in 1..Len(elements) : elements[i] = elements[j] => i = j
            /\ (\A f \in tree : ~f.readable) => elements = <<>>
            /\ Tagged(elements, <<"C","a","r","o","u","s","e","l"," ","n","e","x","t"," ","b","u","t","t","o","n">>)
                   <=> Tagged(elements, <<"C","a","r","o","u","s","e","l"," ","p","r","e","v","i","o","u","s"," ","b","u","t","t","o","n">>)
            /\ Tagged(elements, <<"G","a","n","t","t"," ","c","h","a","r","t">>)
                   <=> Tagged(elements, <<"s","c","h","e","d","u","l","e","d"," ","M","O"," ","b","l","o","c","k">>)

\* the elements of a file with a carousel, a Gantt chart and a third element
\* have been detected
C26_Witness ==
    /\ returned.method = "_detect_elements_in_file"
    /\ Tagged(returned.value, <<"C","a","r","o","u","s","e","l"," ","n","e","x","t"," ","b","u","t","t","o","n">>)
    /\ Tagged(returned.value, <<"G","a","n","t","t"," ","c","h","a","r","t">>)
    /\ Len(returned.value) > 4

\* ---------------------------------------------------------------- C27

\* the step clicks or scrolls, directly or as the action of an If(...)
PerformsClickOrScroll(step) ==
    \/ str_startswith(step, <<"C","l","i","c","k"," ","o","n"," ">>)
    \/ str_startswith(step, <<"S","c","r","o","l","l"," ">>)
    \/ /\ str_startswith(step, <<"I","f","(">>)
       /\ \/ str_contains(step, <<")"," ","t","h","e","n"," ","C","l","i","c","k"," ","o","n"," ">>)
          \/ str_contains(step, <<")"," ","t","h","e","n"," ","S","c","r","o","l","l"," ">>)

\* the indices of the steps call k appended after its launch phase
ParadigmSteps(k) ==
    {i \in CallSteps(k) :
        emitted_by[i] \notin {"add_login_steps", "add_tenant_switching_steps",
                              "add_app_launch_steps"}}

\* C27: after the launch phase of a call, in either paradigm and in
\* comprehensive mode, every step that clicks or scrolls, directly or inside
\* an If(...) conditional, is followed at once by a Wait step and then by
\* the error-verification step of the family.
C27_ClickWaitVerify ==
    \A k \in 1..Len(calls) :
        \A i \in ParadigmSteps(k) :
            PerformsClickOrScroll(steps[i]) =>
                /\ i + 2 \in ParadigmSteps(k)
                /\ SubSeq(steps[i + 1], 1, 5) = <<"W","a","i","t"," ">>
                /\ IsWaitStep(steps[i + 1])
                /\ steps[i + 2] = _verify_step

\* a kind of click or scroll a call emitted after its launch phase
Emitted(k, prefix) ==
    \E i \in ParadigmSteps(k) : str_startswith(steps[i], prefix)

\* a call in comprehensive mode has emitted, after the launch phase, a tab
\* click, a conditional click, a conditional scroll and the Ask AI send
C27_Witness ==
    \E k \in 1..Len(calls) :
        /\ ui_type = UI_TYPE_TABBED
        /\ comprehensive_mode
        /\ Emitted(k, <<"C","l","i","c","k"," ","o","n"," ","S","C","H","E","D","U","L","E"," ","w","i","t","h"," ","A","I">>)
        /\ Emitted(k, <<"I","f","(","E","d","i","t"," ","M","o","d","e"," ","v","i","s","i","b","l","e",")"," ","t","h","e","n"," ","C","l","i","c","k"," ","o","n"," ","E","d","i","t"," ","M","o","d","e"," ","w","i","t","h"," ","A","I">>)
        /\ Emitted(k, <<"I","f","(","Q","u","e","u","e"," ","P","a","n","e","l"," ","v","i","s","i","b","l","e",")"," ","t","h","e","n"," ","S","c","r","o","l","l"," ","d","o","w","n"," ","i","n"," ","Q","u","e","u","e"," ","P","a","n","e","l">>)
        /\ Emitted(k, <<"C","l","i","c","k"," ","o","n"," ","S","e","n","d"," ","m","e","s","s","a","g","e"," ","w","i","t","h"," ","A","I">>)
====
